---- MODULE Spec2Model ----
(***************************************************************************)
(* Party-Game web client.  Each view of the client is a small state        *)
(* machine driven by server-pushed socket events and local user actions:   *)
(*   - the play view            (frontend/src/components/PlayGame.tsx)     *)
(*   - the game-room view       (frontend/src/components/GameRoom.tsx)     *)
(*   - the minimal App          (frontend/src/socket.ts)                   *)
(*   - the leaderboard renderer (front-needs/api-integration.md)           *)
(*   - the lobby of the App     (frontend/src/components/Lobby.tsx)        *)
(*   - the lobby and round pages (frontend/src/apiInstance.ts)             *)
(*   - the entry form of the minimal App (frontend/src/socket.ts)          *)
(*   - the list of answers shown for voting, rendered by the play view     *)
(*     and by the reference client (front-needs/api-integration.md)        *)
(*   - tryFetch, the pages' request helper (frontend/src/apiInstance.ts)   *)
(*   - the socket effect of the game room across its re-runs               *)
(* A view is mounted when its page opens and unmounted when the page is    *)
(* left; unmounting closes the view's socket.                              *)
(* The game server is not part of the repository: it is the environment,   *)
(* which may push any event of the protocol at any time.                   *)
(***************************************************************************)
EXTENDS Integers, Sequences, FiniteSets, TLC

(***************************************************************************)
(* Bounds of the model.                                                    *)
(***************************************************************************)
\* round_started events delivered to one play view
MaxRounds == 3
\* characters in an answer typed into a text box
MaxText == 2
\* entries of a final leaderboard
MaxBoard == 3
\* HTTP requests of one page that are outstanding at the same time
MaxPending == 2
\* sockets one lobby page creates
MaxChannels == 2
\* submissions of one revealed list shown for voting
MaxShown == 2
\* sockets the socket effect of one game room creates
MaxSockets == 6

(***************************************************************************)
(* Values.                                                                 *)
(***************************************************************************)
\* JavaScript null / undefined for a numeric id (falsy, like 0)
Null == 0
\* a missing question text
NoQuestion == "null"

Chars == {" ", "a"}
Whitespace == {" "}

RECURSIVE SeqsUpTo(_, _)
SeqsUpTo(S, n) ==
    IF n = 0 THEN {<<>>}
    ELSE LET shorter == SeqsUpTo(S, n - 1)
         IN  shorter \cup {Append(s, c) : s \in shorter, c \in S}

Texts == SeqsUpTo(Chars, MaxText)

\* String.prototype.trim: strips leading and trailing whitespace
RECURSIVE TrimLeft(_)
TrimLeft(s) ==
    IF s # <<>> /\ Head(s) \in Whitespace THEN TrimLeft(Tail(s)) ELSE s

RECURSIVE TrimRight(_)
TrimRight(s) ==
    IF s # <<>> /\ s[Len(s)] \in Whitespace
    THEN TrimRight(SubSeq(s, 1, Len(s) - 1))
    ELSE s

Trim(s) == TrimRight(TrimLeft(s))

\* the empty object {} / the empty array's index map
EmptyMap == [x \in {} |-> 0]

RoundIds == {7, 8}
Questions == {"Favorite snack?"}

Sub(sid, anon, text) == [submission_id |-> sid, anon_id |-> anon, text |-> text]

\* payloads of submissions_revealed: with a submissions list, or without one
RevealPayloads ==
    { [none |-> TRUE],
      [submissions |-> <<>>],
      [submissions |-> <<Sub(101, "A", "chips")>>],
      [submissions |-> <<Sub(101, "A", "chips"), Sub(102, "B", "nuts")>>] }

\* payloads of vote_update: with a counts map, or without one
VotePayloads ==
    { [none |-> TRUE],
      [counts |-> EmptyMap],
      [counts |-> (101 :> 1)],
      [counts |-> (101 :> 1) @@ (103 :> 2)] }

\* rounds field of GET /games/{id}: absent (Null) or configured
RoundsConfigured == {Null, 2}
DefaultRounds == 10

(***************************************************************************)
(* State.                                                                  *)
(***************************************************************************)
VARIABLES
    \* ---- play view (PlayGame.tsx)
    isHost,        \* search parameter host=true
    roundsTotal,
    roundIndex,
    question,
    roundId,
    answerText,
    submissions,
    voteCounts,
    phase,
    loadState,     \* GET /games/{id} of the load effect: pending, done, failed,
                   \* discarded (answered after the view unmounted)
    playMounted,   \* the play view is rendered
    playSocketOpen,\* the socket of the play view's socket effect is open
    playIn,        \* server event pushed to the play view's socket, not yet handled
    playOut,       \* event emitted on the play view's socket, not yet taken
    \* ---- leaderboard renderer (api-integration.md)
    leaderboard,   \* data.leaderboard of GET /api/games/{id}/results
    currentPage,   \* the page shown by showPage
    board,         \* children of the .leaderboard container
    \* ---- minimal App (socket.ts)
    appPlayerId,
    appPlayers,
    appQuestion,
    appRoundId,
    submissionText,
    appSubmissions,
    appVoteCounts,
    appIn,         \* server event pushed to the App's socket, not yet handled
    appOut,        \* event emitted on the App's socket, not yet taken
    \* ---- game-room view (GameRoom.tsx)
    players,       \* game.players
    host_player_id,\* game.host_player_id
    playerId,
    playerName,
    isReady,
    storedName,    \* localStorage player_name
    storedId,      \* localStorage player_id_<game id>
    metaState,     \* GET /games/{id} of the metadata effect: pending, done, failed,
                   \* dropped (answered after the view unmounted)
    roomMounted,   \* the room is rendered: the flag mounted of the metadata effect
    roomSocketOpen,\* the socket of the room's socket effect is open
    navigated,     \* the view has navigated to the play route
    roomIn,        \* server event pushed to the room's socket, not yet handled
    roomOut,       \* event emitted on the room's socket, not yet taken
    \* ---- lobby (Lobby.tsx 10-116) inside the App that owns player and gameId
    nameInput,
    games,
    loading,
    error,
    lobbyPlayer,   \* the App's player state, set through setPlayer
    gameId,        \* App state set through setGameId
    polling,       \* the Lobby is mounted and its 5 s interval is registered
    lobbyOut,      \* HTTP requests of the lobby the server has not answered
    lobbyIn,       \* HTTP response the lobby has not handled yet
    \* ---- router lobby (Lobby.tsx 125-225)
    activeGames,   \* its games state, listed under "Active Games"
    loadGamesState,\* getGames of loadGames: pending, done, failed
    \* ---- lobby page (apiInstance.ts 177-370)
    myGameId,      \* sessionStorage game_id
    allGames,
    currentGame,
    channels,      \* every socket made by tryConnect; the variable socket is the last
    rooms,         \* games a join_game of this page has reached the server for
    latestRound,   \* sessionStorage latest_round_event
    pageLocation,  \* window.location: lobby.html or round.html
    appName,       \* App: text of the "Your name" input
    appGameId,     \* App: gameId, the text of the "game id" input
    appHttp,       \* App: POST /games requests the server has not answered
    currentRoundId,  \* round page: currentRoundId
    answerInput,     \* round page: text of the answer input
    submitDisabled,  \* round page: submitAnswerBtn.disabled
    roundSocket,     \* round page: state of the socket of initSocket
    roundTried,      \* round page: tried, the endpoints initSocket has used
    roundOut,        \* round page: tryFetch calls that have not returned
    \* ---- the voting list, shown for two revealed payloads side by side
    twinReveal,    \* the two revealed payloads
    twinCounts,    \* the vote counts, the same beside both
    twinShown,     \* what PlayGame's voting view shows for each, <<>> before
    twinCards,     \* the cards displayAnswersForVoting builds for each, <<>> before
    \* ---- one call of tryFetch (apiInstance.ts)
    fetchPath,     \* the path argument
    fetchHost,     \* position of the outer loop in API_HOSTS
    fetchUrl,      \* position of the inner loop in candidates
    fetchLog,      \* the requests issued so far, with what answered each
    fetchState,    \* running, returned or threw
    fetchReturn,   \* the value returned, once returned
    \* ---- the socket effect of the game room across its re-runs
    socketCount,   \* sockets created by the effect so far
    openSockets,   \* the created sockets that are not disconnected
    linkState,     \* newest socket: connecting, connected, or joined (the
                   \* server has answered its join_game)
    effectDeps,    \* playerId, playerName, isHost as the effect last saw them
    serverPlayer,  \* the id and name the server answered the last join with
    pageOut,       \* HTTP requests of the page the server has not answered
    pageIn         \* HTTP response or socket event the page has not handled yet

playState == <<roundsTotal, roundIndex, question, roundId, answerText,
               submissions, voteCounts, phase>>
playLife == <<playMounted, playSocketOpen>>
playVars == <<isHost, playState, loadState, playLife, playIn, playOut>>

boardVars == <<leaderboard, currentPage, board>>

appState == <<appPlayerId, appPlayers, appQuestion, appRoundId, submissionText,
              appSubmissions, appVoteCounts>>
appEntry == <<appName, appGameId, appHttp>>
appVars == <<appState, appEntry, appIn, appOut>>

roomState == <<players, host_player_id, playerId, playerName, isReady,
               storedName, storedId, metaState, navigated>>
roomLife == <<roomMounted, roomSocketOpen>>
roomVars == <<roomState, roomLife, roomIn, roomOut>>

lobbyState == <<nameInput, games, loading, error, lobbyPlayer, gameId, polling>>
routerLobbyVars == <<activeGames, loadGamesState>>
lobbyVars == <<lobbyState, lobbyOut, lobbyIn, routerLobbyVars>>

pageState == <<myGameId, allGames, currentGame, channels, rooms, latestRound,
               pageLocation>>
pageVars == <<pageState, pageOut, pageIn>>

roundVars == <<currentRoundId, answerInput, submitDisabled, roundSocket,
               roundTried, roundOut>>

twinVars == <<twinReveal, twinCounts, twinShown, twinCards>>

fetchVars == <<fetchPath, fetchHost, fetchUrl, fetchLog, fetchState, fetchReturn>>

rejoinVars == <<socketCount, openSockets, linkState, effectDeps, serverPlayer>>

vars == <<playVars, boardVars, appVars, roomVars, lobbyVars, pageVars, roundVars,
          twinVars, fetchVars, rejoinVars>>

(***************************************************************************)
(* Play view: PlayGame.tsx                                                 *)
(***************************************************************************)
PlayInit ==
    /\ isHost \in BOOLEAN
    /\ roundsTotal = DefaultRounds
    /\ roundIndex = 0
    /\ question = NoQuestion
    /\ roundId = Null
    /\ answerText = <<>>
    /\ submissions = <<>>
    /\ voteCounts = EmptyMap
    /\ phase = "waiting"
    /\ loadState = "pending"
    /\ playMounted = TRUE
    /\ playSocketOpen = TRUE
    /\ playIn = <<>>
    /\ playOut = <<>>

\* socketRef.current.emit(...)
PlayEmit(msg) == playOut' = Append(playOut, msg)

\* the events the server can push to the play view
PlayEvents ==
    { [type |-> "round_started", round_id |-> r, question |-> q] :
          r \in RoundIds, q \in Questions }
    \cup { [type |-> "submissions_revealed", data |-> d] : d \in RevealPayloads }
    \cup { [type |-> "vote_update", data |-> d] : d \in VotePayloads }
    \cup { [type |-> "round_finished"] }

\* the server pushes an event
PlayServerPush ==
    /\ playIn = <<>>
    /\ \E ev \in PlayEvents : playIn' = Append(playIn, ev)
    /\ UNCHANGED <<isHost, playState, loadState, playOut>>

\* the server takes the oldest emitted message
PlayServerTake ==
    /\ playOut # <<>>
    /\ playOut' = Tail(playOut)
    /\ UNCHANGED <<isHost, playState, loadState, playIn>>

\* load effect: the response arrives.  The effect has no cleanup: after the
\* view has unmounted setRoundsTotal is still called, and React discards the
\* update of a component that is no longer mounted.
LoadOk ==
    /\ loadState = "pending"
    /\ IF playMounted
       THEN /\ \E rounds \in RoundsConfigured :
                  roundsTotal' = IF rounds = Null THEN DefaultRounds ELSE rounds
            /\ loadState' = "done"
       ELSE /\ UNCHANGED roundsTotal
            /\ loadState' = "discarded"
    /\ UNCHANGED <<isHost, roundIndex, question, roundId, answerText,
                   submissions, voteCounts, phase, playIn, playOut>>

\* load effect: the request fails
LoadFail ==
    /\ loadState = "pending"
    /\ loadState' = "failed"
    /\ UNCHANGED <<isHost, playState, playIn, playOut>>

\* faulty variant: the round counter is not advanced
OnRoundStartedNoCount(data) ==
    /\ roundId' = data.round_id
    /\ question' = data.question
    /\ phase' = "collecting"
    /\ answerText' = <<>>
    /\ submissions' = <<>>
    /\ voteCounts' = EmptyMap
    /\ UNCHANGED <<roundIndex, roundsTotal, playOut>>

\* faulty variant: the answer typed for the previous round is kept
OnRoundStartedKeepAnswer(data) ==
    /\ roundId' = data.round_id
    /\ question' = data.question
    /\ phase' = "collecting"
    /\ submissions' = <<>>
    /\ voteCounts' = EmptyMap
    /\ roundIndex' = roundIndex + 1
    /\ UNCHANGED <<answerText, roundsTotal, playOut>>

\* s.on("round_started")
OnRoundStarted(data) ==
    /\ roundId' = data.round_id
    /\ question' = data.question
    /\ phase' = "collecting"
    /\ answerText' = <<>>
    /\ submissions' = <<>>
    /\ voteCounts' = EmptyMap
    /\ roundIndex' = roundIndex + 1
    /\ UNCHANGED <<roundsTotal, playOut>>

\* s.on("submissions_revealed")
OnSubmissionsRevealed(data) ==
    /\ submissions' = IF "submissions" \in DOMAIN data THEN data.submissions ELSE <<>>
    /\ phase' = "voting"
    /\ UNCHANGED <<roundsTotal, roundIndex, question, roundId, answerText,
                   voteCounts, playOut>>

\* faulty variant: the payload's counts are merged into the tally
OnVoteUpdateMerge(data) ==
    /\ voteCounts' = IF "counts" \in DOMAIN data
                     THEN data.counts @@ voteCounts
                     ELSE voteCounts
    /\ UNCHANGED <<roundsTotal, roundIndex, question, roundId, answerText,
                   submissions, phase, playOut>>

\* s.on("vote_update")
OnVoteUpdate(data) ==
    /\ voteCounts' = IF "counts" \in DOMAIN data THEN data.counts ELSE EmptyMap
    /\ UNCHANGED <<roundsTotal, roundIndex, question, roundId, answerText,
                   submissions, phase, playOut>>

\* s.on("round_finished")
OnRoundFinished ==
    /\ phase' = "finished"
    /\ UNCHANGED <<roundsTotal, roundIndex, question, roundId, answerText,
                   submissions, voteCounts, playOut>>

\* the socket hands the oldest pushed event to its handler
PlayDeliver ==
    /\ playIn # <<>>
    /\ LET ev == Head(playIn)
       IN  /\ ev.type = "round_started" => roundIndex < MaxRounds
           /\ CASE ev.type = "round_started" -> OnRoundStarted(ev)
                [] ev.type = "submissions_revealed" -> OnSubmissionsRevealed(ev.data)
                [] ev.type = "vote_update" -> OnVoteUpdate(ev.data)
                [] ev.type = "round_finished" -> OnRoundFinished
    /\ playIn' = Tail(playIn)
    /\ UNCHANGED <<isHost, loadState>>

\* faulty variant: the request also returns the view to the waiting phase
HostStartRoundToWaiting ==
    /\ isHost
    /\ phase \in {"waiting", "finished"}
    /\ playOut = <<>>
    /\ PlayEmit([type |-> "start_round"])
    /\ phase' = "waiting"
    /\ UNCHANGED <<isHost, roundsTotal, roundIndex, question, roundId, answerText,
                   submissions, voteCounts, loadState, playIn>>

\* hostStartRound, behind the Start Round / Start Next Round buttons
HostStartRound ==
    /\ isHost
    /\ phase \in {"waiting", "finished"}
    /\ playOut = <<>>
    /\ PlayEmit([type |-> "start_round"])
    /\ UNCHANGED <<isHost, playState, loadState, playIn>>

\* the textarea's onChange
TypeAnswer ==
    /\ phase = "collecting"
    /\ \E t \in Texts : t # answerText /\ answerText' = t
    /\ UNCHANGED <<isHost, roundsTotal, roundIndex, question, roundId,
                   submissions, voteCounts, phase, loadState, playIn, playOut>>

\* submitAnswer, behind the Submit Answer button
SubmitAnswer ==
    /\ phase = "collecting"
    /\ playOut = <<>>
    /\ IF roundId = Null \/ Trim(answerText) = <<>>
       THEN UNCHANGED <<answerText, playOut>>
       ELSE /\ PlayEmit([type |-> "submit_answer", round_id |-> roundId,
                         text |-> Trim(answerText)])
            /\ answerText' = <<>>
    /\ UNCHANGED <<isHost, roundsTotal, roundIndex, question, roundId,
                   submissions, voteCounts, phase, loadState, playIn>>

\* faulty variant: the Reveal Submissions button is shown to every player
RevealByAnyone ==
    /\ phase = "collecting"
    /\ playOut = <<>>
    /\ PlayEmit([type |-> "reveal_submissions", round_id |-> roundId])
    /\ UNCHANGED <<isHost, playState, loadState, playIn>>

\* reveal, behind the host's Reveal Submissions button
Reveal ==
    /\ isHost
    /\ phase = "collecting"
    /\ playOut = <<>>
    /\ PlayEmit([type |-> "reveal_submissions", round_id |-> roundId])
    /\ UNCHANGED <<isHost, playState, loadState, playIn>>

\* the tally with one more vote for submission sid
Incremented(counts, sid) ==
    [k \in DOMAIN counts \cup {sid} |->
        IF k = sid
        THEN (IF sid \in DOMAIN counts THEN counts[sid] ELSE 0) + 1
        ELSE counts[k]]

\* faulty variant: the vote is counted locally before the server confirms it
VoteOptimistic ==
    /\ phase = "voting"
    /\ playOut = <<>>
    /\ \E i \in 1..Len(submissions) :
          /\ PlayEmit([type |-> "vote_submission", round_id |-> roundId,
                       submission_id |-> submissions[i].submission_id])
          /\ voteCounts' = Incremented(voteCounts, submissions[i].submission_id)
    /\ UNCHANGED <<isHost, roundsTotal, roundIndex, question, roundId, answerText,
                   submissions, phase, loadState, playIn>>

\* vote, behind the Vote button of a listed submission
Vote ==
    /\ phase = "voting"
    /\ playOut = <<>>
    /\ \E i \in 1..Len(submissions) :
          PlayEmit([type |-> "vote_submission", round_id |-> roundId,
                    submission_id |-> submissions[i].submission_id])
    /\ UNCHANGED <<isHost, playState, loadState, playIn>>

\* the play view unmounts: the cleanup of the socket effect runs
\* (s.disconnect()), events not yet handled are lost with the socket, and the
\* component's state goes back to the values a new instance starts with
PlayUnmount ==
    /\ playMounted
    /\ playMounted' = FALSE
    /\ playSocketOpen' = FALSE
    /\ playIn' = <<>>
    /\ roundsTotal' = DefaultRounds
    /\ roundIndex' = 0
    /\ question' = NoQuestion
    /\ roundId' = Null
    /\ answerText' = <<>>
    /\ submissions' = <<>>
    /\ voteCounts' = EmptyMap
    /\ phase' = "waiting"
    /\ UNCHANGED <<isHost, loadState, playOut>>

(***************************************************************************)
(* Leaderboard renderer: front-needs/api-integration.md                    *)
(***************************************************************************)
PlayerNames == {"Alex", "Sam"}
Scores == {10, 20, 30}
Avatars == {"cat"}

\* showPage(2) is the voting page, showPage(3) the results page
VotingPage == 2
ResultsPage == 3

LeaderboardEntries == [name : PlayerNames, avatar : Avatars, score : Scores]
Leaderboards == SeqsUpTo(LeaderboardEntries, MaxBoard)

\* faulty variant: the 0-based position itself is used as the rank
RankOfZeroBased(index) == index

\* the rank of the element at (0-based) position index of the list
RankOf(index) == index + 1

\* the CSS class of a rank badge
RankClass(rank) ==
    CASE rank = 1 -> "rank-1"
      [] rank = 2 -> "rank-2"
      [] rank = 3 -> "rank-3"
      [] OTHER -> "other"

\* the body of leaderboard.forEach((player, index) => ...), from position index on
RECURSIVE ForEachFrom(_, _, _)
ForEachFrom(list, index, items) ==
    IF index >= Len(list) THEN items
    ELSE LET player == list[index + 1]
             rank == RankOf(index)
             item == [rank |-> rank, rankClass |-> RankClass(rank),
                      name |-> player.name, avatar |-> player.avatar,
                      score |-> player.score]
         IN  ForEachFrom(list, index + 1, Append(items, item))

BoardInit ==
    /\ leaderboard = <<>>
    /\ currentPage = VotingPage
    /\ board = <<>>

\* displayResults(leaderboard)
DisplayResults(list) ==
    /\ currentPage' = ResultsPage
    /\ board' = ForEachFrom(list, 0, <<>>)

\* loadResults: the results are fetched and displayed
LoadResults ==
    \E list \in Leaderboards :
        /\ leaderboard' = list
        /\ DisplayResults(list)

(***************************************************************************)
(* Rosters pushed by the server.                                           *)
(***************************************************************************)
Player(id, name, ready) == [id |-> id, name |-> name, ready |-> ready]

PlayerIds == {1, 2}

\* the name the server knows a player id by
NameOf(id) == IF id = 1 THEN "Alex" ELSE "Sam"

\* the players lists of player_list payloads and of GET /games/{id}: every
\* player id at most once
RosterPayloads ==
    {<<>>}
    \cup { <<Player(i, NameOf(i), r)>> : i \in PlayerIds, r \in BOOLEAN }
    \cup { <<Player(1, NameOf(1), r1), Player(2, NameOf(2), r2)>> :
              r1 \in BOOLEAN, r2 \in BOOLEAN }

\* Array.prototype.some(p => p.id === id)
HasId(list, id) == \E k \in 1..Len(list) : list[k].id = id

\* Array.prototype.find(p => p.id === id), for a list that has the id
FindId(list, id) ==
    list[CHOOSE k \in 1..Len(list) :
            /\ list[k].id = id
            /\ \A m \in 1..(k - 1) : list[m].id # id]

(***************************************************************************)
(* Minimal App: socket.ts, lines 94-230                                    *)
(***************************************************************************)
AppInit ==
    /\ appPlayerId = Null
    /\ appPlayers = <<>>
    /\ appQuestion = NoQuestion
    /\ appRoundId = Null
    /\ submissionText = <<>>
    /\ appSubmissions = <<>>
    /\ appVoteCounts = EmptyMap
    /\ appIn = <<>>
    /\ appOut = <<>>

\* socket && socket.emit(...)
AppEmit(msg) == appOut' = Append(appOut, msg)

\* payloads of player_list: with a players list, or without one
AppRosterPayloads ==
    { [none |-> TRUE],
      [players |-> <<>>],
      [players |-> <<Player(1, NameOf(1), FALSE)>>],
      [players |-> <<Player(1, NameOf(1), TRUE), Player(2, NameOf(2), FALSE)>>] }

\* the events the server can push to the App
AppEvents ==
    { [type |-> "joined", player_id |-> i] : i \in PlayerIds }
    \cup { [type |-> "player_list", data |-> d] : d \in AppRosterPayloads }
    \cup { [type |-> "round_started", round_id |-> r, question |-> q] :
              r \in RoundIds, q \in Questions }
    \cup { [type |-> "submission_received"] }
    \cup { [type |-> "submissions_revealed", data |-> d] : d \in RevealPayloads }
    \cup { [type |-> "vote_update", data |-> d] : d \in VotePayloads }
    \cup { [type |-> "round_finished"] }
    \cup { [type |-> "error"] }

AppServerPush ==
    /\ appIn = <<>>
    /\ \E ev \in AppEvents : appIn' = Append(appIn, ev)
    /\ UNCHANGED <<appState, appOut>>

AppServerTake ==
    /\ appOut # <<>>
    /\ appOut' = Tail(appOut)
    /\ UNCHANGED <<appState, appIn>>

\* s.on("joined")
AppOnJoined(d) ==
    /\ appPlayerId' = d.player_id
    /\ UNCHANGED <<appPlayers, appQuestion, appRoundId, submissionText,
                   appSubmissions, appVoteCounts>>

\* s.on("player_list")
AppOnPlayerList(d) ==
    /\ appPlayers' = IF "players" \in DOMAIN d THEN d.players ELSE <<>>
    /\ UNCHANGED <<appPlayerId, appQuestion, appRoundId, submissionText,
                   appSubmissions, appVoteCounts>>

\* s.on("round_started")
AppOnRoundStarted(d) ==
    /\ appRoundId' = d.round_id
    /\ appQuestion' = d.question
    /\ appSubmissions' = <<>>
    /\ appVoteCounts' = EmptyMap
    /\ UNCHANGED <<appPlayerId, appPlayers, submissionText>>

\* s.on("submissions_revealed")
AppOnSubmissionsRevealed(d) ==
    /\ appSubmissions' = IF "submissions" \in DOMAIN d THEN d.submissions ELSE <<>>
    /\ UNCHANGED <<appPlayerId, appPlayers, appQuestion, appRoundId,
                   submissionText, appVoteCounts>>

\* s.on("vote_update")
AppOnVoteUpdate(d) ==
    /\ appVoteCounts' = IF "counts" \in DOMAIN d THEN d.counts ELSE EmptyMap
    /\ UNCHANGED <<appPlayerId, appPlayers, appQuestion, appRoundId,
                   submissionText, appSubmissions>>

\* s.on("submission_received"), s.on("round_finished"), s.on("error"): no
\* state is set (an alert at most)
AppOnNotice == UNCHANGED appState

AppDeliver ==
    /\ appIn # <<>>
    /\ LET ev == Head(appIn)
       IN  CASE ev.type = "joined" -> AppOnJoined(ev)
             [] ev.type = "player_list" -> AppOnPlayerList(ev.data)
             [] ev.type = "round_started" -> AppOnRoundStarted(ev)
             [] ev.type = "submissions_revealed" -> AppOnSubmissionsRevealed(ev.data)
             [] ev.type = "vote_update" -> AppOnVoteUpdate(ev.data)
             [] OTHER -> AppOnNotice
    /\ appIn' = Tail(appIn)
    /\ UNCHANGED appOut

\* the answer textarea's onChange (rendered once a question is known)
AppTypeAnswer ==
    /\ appQuestion # NoQuestion
    /\ \E t \in Texts : t # submissionText /\ submissionText' = t
    /\ UNCHANGED <<appPlayerId, appPlayers, appQuestion, appRoundId,
                   appSubmissions, appVoteCounts, appIn, appOut>>

\* submitAnswer, behind the Submit Answer button
AppSubmitAnswer ==
    /\ appQuestion # NoQuestion
    /\ appOut = <<>>
    /\ IF appRoundId = Null
       THEN UNCHANGED <<submissionText, appOut>>
       ELSE /\ AppEmit([type |-> "submit_answer", round_id |-> appRoundId,
                        text |-> submissionText])
            /\ submissionText' = <<>>
    /\ UNCHANGED <<appPlayerId, appPlayers, appQuestion, appRoundId,
                   appSubmissions, appVoteCounts, appIn>>

\* reveal, behind the Reveal Submissions button
AppReveal ==
    /\ appQuestion # NoQuestion
    /\ appOut = <<>>
    /\ AppEmit([type |-> "reveal_submissions", round_id |-> appRoundId])
    /\ UNCHANGED <<appState, appIn>>

\* vote, behind the Vote button of a listed submission
AppVote ==
    /\ appQuestion # NoQuestion
    /\ appOut = <<>>
    /\ \E i \in 1..Len(appSubmissions) :
          AppEmit([type |-> "vote_submission", round_id |-> appRoundId,
                   submission_id |-> appSubmissions[i].submission_id])
    /\ UNCHANGED <<appState, appIn>>

(***************************************************************************)
(* Game-room view: GameRoom.tsx                                            *)
(***************************************************************************)
\* localStorage has no entry
NoName == "null"
\* the name used when the prompt is left empty
DefaultName == "Player"

\* the host_player_id the server reports for the game
HostId == 1

RoomInit ==
    /\ players = <<>>
    /\ host_player_id = 0
    /\ playerId = Null
    /\ playerName = DefaultName
    /\ isReady = FALSE
    /\ \/ storedName = NoName /\ storedId = Null
       \/ storedName = NameOf(2) /\ storedId = 2
    /\ metaState = "pending"
    /\ navigated = FALSE
    /\ roomMounted = TRUE
    /\ roomSocketOpen = TRUE
    /\ roomIn = <<>>
    /\ roomOut = <<>>

\* socket.emit(...)
RoomEmit(msg) == roomOut' = Append(roomOut, msg)

isHostOfRoom == playerId # Null /\ playerId = host_player_id
allReady == Len(players) > 0 /\ \A k \in 1..Len(players) : players[k].ready

\* the events the server (or the transport) can push to the room
RoomEvents ==
    { [type |-> "connect"] }
    \cup { [type |-> "joined", player_id |-> i, name |-> n] :
              i \in PlayerIds \cup {Null}, n \in {NameOf(1), NameOf(2)} }
    \cup { [type |-> "player_list", players |-> l] : l \in RosterPayloads }
    \cup { [type |-> "game_started"] }

RoomServerPush ==
    /\ ~navigated
    /\ roomIn = <<>>
    /\ \E ev \in RoomEvents : roomIn' = Append(roomIn, ev)
    /\ UNCHANGED <<roomState, roomOut>>

RoomServerTake ==
    /\ roomOut # <<>>
    /\ roomOut' = Tail(roomOut)
    /\ UNCHANGED <<roomState, roomIn>>

\* metadata effect: the response arrives; if (!mounted) return
MetaOk ==
    /\ ~navigated
    /\ metaState = "pending"
    /\ IF roomMounted
       THEN /\ \E list \in RosterPayloads :
                  /\ players' = list
                  /\ host_player_id' = HostId
            /\ metaState' = "done"
       ELSE /\ UNCHANGED <<players, host_player_id>>
            /\ metaState' = "dropped"
    /\ UNCHANGED <<playerId, playerName, isReady, storedName, storedId,
                   navigated, roomIn, roomOut>>

\* metadata effect: the request fails
MetaFail ==
    /\ ~navigated
    /\ metaState = "pending"
    /\ metaState' = "failed"
    /\ UNCHANGED <<players, host_player_id, playerId, playerName, isReady,
                   storedName, storedId, navigated, roomIn, roomOut>>

\* socket.on("connect")
OnConnect ==
    /\ \E name \in (IF storedName = NoName
                     THEN {DefaultName, NameOf(1), NameOf(2)}
                     ELSE {storedName}) :
          /\ storedName' = name
          /\ playerName' = name
          /\ RoomEmit([type |-> "join_game", name |-> name,
                       player_id |-> storedId])
    /\ playerId' = storedId
    /\ UNCHANGED <<players, host_player_id, isReady, storedId, metaState, navigated>>

\* faulty variant: only the entry with the same id is replaced
OnJoinedKeepSameName(data) ==
    IF data.player_id = Null
    THEN UNCHANGED <<roomState, roomOut>>
    ELSE /\ playerId' = data.player_id
         /\ playerName' = data.name
         /\ storedId' = data.player_id
         /\ storedName' = data.name
         /\ LET Keep(p) == p.id # data.player_id
            IN  players' = Append(SelectSeq(players, Keep),
                                  Player(data.player_id, data.name, FALSE))
         /\ UNCHANGED <<host_player_id, isReady, metaState, navigated, roomOut>>

\* socket.on("joined")
OnJoined(data) ==
    IF data.player_id = Null
    THEN UNCHANGED <<roomState, roomOut>>
    ELSE /\ playerId' = data.player_id
         /\ playerName' = data.name
         /\ storedId' = data.player_id
         /\ storedName' = data.name
         /\ LET Keep(p) == p.id # data.player_id /\ p.name # data.name
            IN  players' = Append(SelectSeq(players, Keep),
                                  Player(data.player_id, data.name, FALSE))
         /\ UNCHANGED <<host_player_id, isReady, metaState, navigated, roomOut>>

\* faulty variant: the payload replaces the roster
MergeRosterReplace(prev, list) == list

\* faulty variant: every player of the payload is appended
MergeRosterAppendAll(prev, list) == prev \o list

\* the roster after a player_list payload is merged into it
MergeRoster(prev, list) ==
    LET mergedPlayers ==
            [k \in 1..Len(prev) |->
                IF HasId(list, prev[k].id)
                THEN [prev[k] EXCEPT !.ready = FindId(list, prev[k].id).ready,
                                     !.name = FindId(list, prev[k].id).name]
                ELSE prev[k]]
        IsNew(dp) == ~HasId(prev, dp.id)
        newPlayers == SelectSeq(list, IsNew)
    IN  mergedPlayers \o newPlayers

\* faulty variant: the local ready flag is not re-derived from the roster
OnPlayerListKeepReady(data) ==
    /\ players' = MergeRoster(players, data.players)
    /\ IF playerId # Null /\ HasId(data.players, playerId)
       THEN /\ playerName' = FindId(data.players, playerId).name
            /\ UNCHANGED isReady
       ELSE UNCHANGED <<isReady, playerName>>
    /\ UNCHANGED <<host_player_id, playerId, storedName, storedId, metaState,
                   navigated, roomOut>>

\* socket.on("player_list")
OnPlayerList(data) ==
    /\ players' = MergeRoster(players, data.players)
    /\ IF playerId # Null /\ HasId(data.players, playerId)
       THEN /\ isReady' = FindId(data.players, playerId).ready
            /\ playerName' = FindId(data.players, playerId).name
       ELSE UNCHANGED <<isReady, playerName>>
    /\ UNCHANGED <<host_player_id, playerId, storedName, storedId, metaState,
                   navigated, roomOut>>

\* faulty variant: the client navigates without looking at its player id
OnGameStartedAlways ==
    /\ navigated' = TRUE
    /\ UNCHANGED <<players, host_player_id, playerId, playerName, isReady,
                   storedName, storedId, metaState, roomOut>>

\* socket.on("game_started")
OnGameStarted ==
    /\ navigated' = (playerId # Null)
    /\ UNCHANGED <<players, host_player_id, playerId, playerName, isReady,
                   storedName, storedId, metaState, roomOut>>

RoomDeliver ==
    /\ ~navigated
    /\ roomIn # <<>>
    /\ LET ev == Head(roomIn)
       IN  /\ ev.type = "connect" => roomOut = <<>>
           /\ CASE ev.type = "connect" -> OnConnect
                [] ev.type = "joined" -> OnJoined(ev)
                [] ev.type = "player_list" -> OnPlayerList(ev)
                [] ev.type = "game_started" -> OnGameStarted
    /\ roomIn' = Tail(roomIn)

\* faulty variant: only the flag is flipped, the roster entry is left alone
ToggleReadyFlagOnly ==
    /\ ~navigated
    /\ roomOut = <<>>
    /\ IF playerId = Null
       THEN UNCHANGED <<isReady, roomOut>>
       ELSE /\ isReady' = ~isReady
            /\ RoomEmit([type |-> "toggle_ready", player_id |-> playerId,
                         ready |-> ~isReady])
    /\ UNCHANGED <<players, host_player_id, playerId, playerName, storedName,
                   storedId, metaState, navigated, roomIn>>

\* toggleReady, behind the Ready Up / Cancel Ready button
ToggleReady ==
    /\ ~navigated
    /\ roomOut = <<>>
    /\ IF playerId = Null
       THEN UNCHANGED <<players, isReady, roomOut>>
       ELSE /\ players' = [k \in 1..Len(players) |->
                              IF players[k].id = playerId
                              THEN [players[k] EXCEPT !.ready = ~isReady]
                              ELSE players[k]]
            /\ isReady' = ~isReady
            /\ RoomEmit([type |-> "toggle_ready", player_id |-> playerId,
                         ready |-> ~isReady])
    /\ UNCHANGED <<host_player_id, playerId, playerName, storedName, storedId,
                   metaState, navigated, roomIn>>

\* startGame, behind the host's Start Game button (disabled unless allReady)
StartGame ==
    /\ ~navigated
    /\ isHostOfRoom
    /\ allReady
    /\ roomOut = <<>>
    /\ IF playerId = Null \/ ~isHostOfRoom
       THEN UNCHANGED roomOut
       ELSE RoomEmit([type |-> "start_game"])
    /\ UNCHANGED <<roomState, roomIn>>

\* faulty variant: the kicked player is also removed from the local roster
KickPlayerRemoveLocally ==
    /\ ~navigated
    /\ isHostOfRoom
    /\ roomOut = <<>>
    /\ \E k \in 1..Len(players) :
          /\ players[k].id # playerId
          /\ RoomEmit([type |-> "remove_player", player_id |-> players[k].id])
          /\ LET Others(p) == p.id # players[k].id
             IN  players' = SelectSeq(players, Others)
    /\ UNCHANGED <<host_player_id, playerId, playerName, isReady, storedName,
                   storedId, metaState, navigated, roomIn>>

\* kickPlayer, behind the X button the host sees beside every other player
KickPlayer ==
    /\ ~navigated
    /\ isHostOfRoom
    /\ roomOut = <<>>
    /\ \E k \in 1..Len(players) :
          /\ players[k].id # playerId
          /\ IF ~isHostOfRoom
             THEN UNCHANGED roomOut
             ELSE RoomEmit([type |-> "remove_player", player_id |-> players[k].id])
    /\ UNCHANGED <<roomState, roomIn>>

\* faulty variant: the cleanup leaves the socket connected
RoomUnmountKeepSocket ==
    /\ roomMounted
    /\ roomMounted' = FALSE
    /\ players' = <<>>
    /\ host_player_id' = 0
    /\ playerId' = Null
    /\ playerName' = DefaultName
    /\ isReady' = FALSE
    /\ UNCHANGED <<roomSocketOpen, roomIn, storedName, storedId, metaState,
                   navigated, roomOut>>

\* the room unmounts: the cleanups of both effects run (mounted = false,
\* socket.disconnect()), events not yet handled are lost with the socket, and
\* the component's state goes back to the values a new instance starts with;
\* localStorage stays
RoomUnmount ==
    /\ roomMounted
    /\ roomMounted' = FALSE
    /\ roomSocketOpen' = FALSE
    /\ roomIn' = <<>>
    /\ players' = <<>>
    /\ host_player_id' = 0
    /\ playerId' = Null
    /\ playerName' = DefaultName
    /\ isReady' = FALSE
    /\ UNCHANGED <<storedName, storedId, metaState, navigated, roomOut>>

(***************************************************************************)
(* The socket effect of the game room across its re-runs: GameRoom.tsx     *)
(* 63-129.  The effect depends on playerId, playerName and isHost (id and  *)
(* navigate do not change while the room is shown): when a render finds    *)
(* one of them changed, React runs the effect's cleanup and then the       *)
(* effect again.  The server answers every join_game with a joined event   *)
(* that carries the name sent and the player id sent, or an id it assigns  *)
(* when none was sent, and broadcasts player lists to a socket only after  *)
(* that socket has joined.                                                 *)
(***************************************************************************)
\* the dependencies of the socket effect that can change
RoomDeps == <<playerId, playerName, isHostOfRoom>>

RejoinInit ==
    /\ socketCount = 1
    /\ openSockets = {1}
    /\ linkState = "connecting"
    /\ effectDeps = <<Null, DefaultName, FALSE>>
    /\ serverPlayer = [none |-> TRUE]

\* the newest socket connects: its connect event is raised
SocketConnects ==
    /\ linkState = "connecting"
    /\ roomIn = <<>>
    /\ roomIn' = <<[type |-> "connect"]>>
    /\ linkState' = "connected"
    /\ UNCHANGED <<roomState, roomLife, roomOut, socketCount, openSockets,
                   effectDeps, serverPlayer>>

\* the server answers the join_game of the newest socket
ServerAnswersJoin ==
    /\ linkState = "connected"
    /\ roomIn = <<>>
    /\ roomOut # <<>>
    /\ Head(roomOut).type = "join_game"
    /\ LET sent == Head(roomOut)
       IN  \E i \in (IF sent.player_id # Null THEN {sent.player_id} ELSE PlayerIds) :
             /\ serverPlayer' = [id |-> i, name |-> sent.name]
             /\ roomIn' = <<[type |-> "joined", player_id |-> i, name |-> sent.name]>>
    /\ roomOut' = Tail(roomOut)
    /\ linkState' = "joined"
    /\ UNCHANGED <<roomState, roomLife, socketCount, openSockets, effectDeps>>

\* the rosters the server broadcasts to a socket that has joined: the local
\* player as the server knows them, alone or with the other player
JoinedRosters ==
    LET other == CHOOSE i \in PlayerIds : i # serverPlayer.id
    IN  { <<Player(serverPlayer.id, serverPlayer.name, r)>> : r \in BOOLEAN }
        \cup { <<Player(serverPlayer.id, serverPlayer.name, r),
                 Player(other, NameOf(other), TRUE)>> : r \in BOOLEAN }

\* the server broadcasts the player list of the room
ServerBroadcast ==
    /\ linkState = "joined"
    /\ roomIn = <<>>
    /\ \E l \in JoinedRosters :
          roomIn' = <<[type |-> "player_list", players |-> l]>>
    /\ UNCHANGED <<roomState, roomLife, roomOut, rejoinVars>>

\* faulty variant: the effect runs again without the cleanup of its last run
EffectRerunNoCleanup ==
    /\ RoomDeps # effectDeps
    /\ socketCount < MaxSockets
    /\ openSockets' = openSockets \cup {socketCount + 1}
    /\ socketCount' = socketCount + 1
    /\ linkState' = "connecting"
    /\ effectDeps' = RoomDeps
    /\ roomIn' = <<>>
    /\ roomOut' = <<>>
    /\ UNCHANGED <<roomState, roomLife, serverPlayer>>

\* a render has found a dependency changed: the cleanup disconnects the
\* socket (events and answers still on their way to it are lost), then the
\* effect creates the next socket and registers its handlers
EffectRerun ==
    /\ RoomDeps # effectDeps
    /\ socketCount < MaxSockets
    /\ openSockets' = (openSockets \ {socketCount}) \cup {socketCount + 1}
    /\ socketCount' = socketCount + 1
    /\ linkState' = "connecting"
    /\ effectDeps' = RoomDeps
    /\ roomIn' = <<>>
    /\ roomOut' = <<>>
    /\ UNCHANGED <<roomState, roomLife, serverPlayer>>

(***************************************************************************)
(* Lobby: Lobby.tsx 10-116, rendered by the App while gameId is empty.     *)
(***************************************************************************)
\* useState<string | null>(null) of error
NoError == "null"
\* useState<string>("") of gameId
NoGame == ""

GameIds == {5, 6}
\* lists of open games, a game represented by its id
GameLists == {<<>>, <<5>>, <<5, 6>>}

\* bodies of a list-games response: without a list, or with one
ListBodies == {[none |-> TRUE]} \cup {[games |-> l] : l \in GameLists}

\* response.data.games ?? []  (and res.data || [] of the router lobby)
BodyGames(data) == IF "games" \in DOMAIN data THEN data.games ELSE <<>>

\* game_id?.toString() ?? ""
IdString(id) ==
    CASE id = Null -> NoGame
      [] id = 5 -> "5"
      [] id = 6 -> "6"

\* the sequence without its i-th element
Remove(seq, i) == SubSeq(seq, 1, i - 1) \o SubSeq(seq, i + 1, Len(seq))

\* an HTTP request of the lobby; live: the Lobby instance that sent it is
\* still mounted
ListRequest == [kind |-> "games", live |-> TRUE]
CreateRequest(name) == [kind |-> "create", name |-> name, live |-> TRUE]
JoinRequest(id, name) == [kind |-> "join", game_id |-> id, name |-> name, live |-> TRUE]

LobbyInit ==
    /\ nameInput = <<>>
    /\ games = <<>>
    /\ loading = FALSE
    /\ error = NoError
    /\ lobbyPlayer = <<>>
    /\ gameId = NoGame
    /\ polling = TRUE
    /\ lobbyOut = <<ListRequest>>
    /\ lobbyIn = <<>>

\* the state a Lobby instance is constructed with (lines 11-14)
LobbyFresh ==
    /\ nameInput' = <<>>
    /\ games' = <<>>
    /\ loading' = FALSE
    /\ error' = NoError

\* the answers the server can give to a request
LobbyAnswers(r) ==
    { [req |-> r, ok |-> FALSE] }
    \cup (IF r.kind = "games"
          THEN { [req |-> r, ok |-> TRUE, data |-> d] : d \in ListBodies }
          ELSE { [req |-> r, ok |-> TRUE, game_id |-> g] : g \in GameIds \cup {Null} })

\* the server answers one of the outstanding requests
LobbyServerAnswer ==
    /\ lobbyIn = <<>>
    /\ \E i \in 1..Len(lobbyOut) :
          /\ \E resp \in LobbyAnswers(lobbyOut[i]) : lobbyIn' = <<resp>>
          /\ lobbyOut' = Remove(lobbyOut, i)
    /\ UNCHANGED lobbyState

\* what the user types into the name input: nothing, blanks, a name, a name
\* after a blank
NameInputs == {<<>>, <<" ">>, <<"a">>, <<" ", "a">>}

\* the input's onChange
TypeName ==
    /\ polling
    /\ \E t \in NameInputs : t # nameInput /\ nameInput' = t
    /\ UNCHANGED <<games, loading, error, lobbyPlayer, gameId, polling, lobbyOut, lobbyIn>>

\* fetchGames up to its await, called by the interval every 5 s
PollTick ==
    /\ polling
    /\ Len(lobbyOut) < MaxPending
    /\ lobbyOut' = Append(lobbyOut, ListRequest)
    /\ UNCHANGED <<lobbyState, lobbyIn>>

\* fetchGames after its await: the try block
FetchGamesOk(resp) ==
    /\ IF resp.req.live
       THEN games' = BodyGames(resp.data)
       ELSE UNCHANGED games
    /\ UNCHANGED <<nameInput, loading, error, lobbyPlayer, gameId, polling, lobbyOut>>

\* faulty variant: the list fetched before is kept
FetchGamesFailKeepList(resp) ==
    /\ IF resp.req.live
       THEN error' = "Failed to fetch games"
       ELSE UNCHANGED error
    /\ UNCHANGED <<nameInput, games, loading, lobbyPlayer, gameId, polling, lobbyOut>>

\* fetchGames after its await: the catch block
FetchGamesFail(resp) ==
    /\ IF resp.req.live
       THEN error' = "Failed to fetch games" /\ games' = <<>>
       ELSE UNCHANGED <<error, games>>
    /\ UNCHANGED <<nameInput, loading, lobbyPlayer, gameId, polling, lobbyOut>>

\* the outstanding requests once the Lobby instance that sent them is gone
Orphaned(reqs) == [k \in 1..Len(reqs) |-> [reqs[k] EXCEPT !.live = FALSE]]

\* faulty variant: the interval survives the Lobby being replaced
SetGameIdKeepTimer(g, live) ==
    /\ gameId' = g
    /\ IF g # NoGame /\ polling
       THEN /\ LobbyFresh
            /\ UNCHANGED <<polling, lobbyOut>>
       ELSE /\ loading' = IF live /\ polling THEN FALSE ELSE loading
            /\ UNCHANGED <<nameInput, games, error, polling, lobbyOut>>

\* setGameId(g) in a handler of a Lobby instance (live: the instance is still
\* mounted), the App's next render (App.tsx 11-13: the Lobby is rendered
\* exactly while gameId is empty) and the handler's finally block.  Unmounting
\* runs the effect's cleanup (line 31) and discards the instance's state.
SetGameId(g, live) ==
    /\ gameId' = g
    /\ IF g # NoGame /\ polling
       THEN /\ polling' = FALSE
            /\ LobbyFresh
            /\ lobbyOut' = Orphaned(lobbyOut)
       ELSE IF g = NoGame /\ ~polling
       THEN /\ polling' = TRUE
            /\ LobbyFresh
            /\ lobbyOut' = Append(lobbyOut, ListRequest)
       ELSE /\ loading' = IF live /\ polling THEN FALSE ELSE loading
            /\ UNCHANGED <<nameInput, games, error, polling, lobbyOut>>

\* handleCreateGame up to its await, behind the Create Game button (disabled
\* while loading)
HandleCreateGame ==
    /\ polling
    /\ ~loading
    /\ Len(lobbyOut) < MaxPending
    /\ IF Trim(nameInput) = <<>>
       THEN /\ error' = "Enter your name to continue."
            /\ UNCHANGED <<loading, lobbyPlayer, lobbyOut>>
       ELSE /\ error' = NoError
            /\ loading' = TRUE
            /\ lobbyPlayer' = Trim(nameInput)
            /\ lobbyOut' = Append(lobbyOut, CreateRequest(Trim(nameInput)))
    /\ UNCHANGED <<nameInput, games, gameId, polling, lobbyIn>>

\* handleCreateGame after its await: the try block, then finally
CreateOk(resp) ==
    /\ SetGameId(IdString(resp.game_id), resp.req.live)
    /\ UNCHANGED lobbyPlayer

\* handleCreateGame after its await: the catch block, then finally
CreateFail(resp) ==
    /\ IF resp.req.live
       THEN error' = "Failed to create game" /\ loading' = FALSE
       ELSE UNCHANGED <<error, loading>>
    /\ UNCHANGED <<nameInput, games, lobbyPlayer, gameId, polling, lobbyOut>>

\* handleJoinGame up to its await, behind the Join Game button of a listed game
HandleJoinGame ==
    /\ polling
    /\ Len(lobbyOut) < MaxPending
    /\ \E k \in 1..Len(games) :
          IF Trim(nameInput) = <<>>
          THEN /\ error' = "Enter your name to join a game."
               /\ UNCHANGED <<loading, lobbyOut>>
          ELSE /\ error' = NoError
               /\ loading' = TRUE
               /\ lobbyOut' = Append(lobbyOut, JoinRequest(games[k], Trim(nameInput)))
    /\ UNCHANGED <<nameInput, games, lobbyPlayer, gameId, polling, lobbyIn>>

\* handleJoinGame after its await: the try block, then finally
JoinOk(resp) ==
    /\ lobbyPlayer' = resp.req.name
    /\ SetGameId(IdString(resp.game_id), resp.req.live)

\* handleJoinGame after its await: the catch block, then finally
JoinFail(resp) ==
    /\ IF resp.req.live
       THEN error' = "Failed to join game" /\ loading' = FALSE
       ELSE UNCHANGED <<error, loading>>
    /\ UNCHANGED <<nameInput, games, lobbyPlayer, gameId, polling, lobbyOut>>

\* a response arrives: the awaiting function continues
LobbyDeliver ==
    /\ lobbyIn # <<>>
    /\ LET resp == Head(lobbyIn)
       IN  CASE resp.req.kind = "games" /\ resp.ok -> FetchGamesOk(resp)
             [] resp.req.kind = "games" /\ ~resp.ok -> FetchGamesFail(resp)
             [] resp.req.kind = "create" /\ resp.ok -> CreateOk(resp)
             [] resp.req.kind = "create" /\ ~resp.ok -> CreateFail(resp)
             [] resp.req.kind = "join" /\ resp.ok -> JoinOk(resp)
             [] resp.req.kind = "join" /\ ~resp.ok -> JoinFail(resp)
    /\ lobbyIn' = Tail(lobbyIn)

(***************************************************************************)
(* Router lobby: Lobby.tsx 125-225.  Its list of games is loaded once.     *)
(***************************************************************************)
RouterLobbyInit ==
    /\ activeGames = <<>>
    /\ loadGamesState = "pending"

\* loadGames after its await: the try block
LoadGamesOk ==
    /\ loadGamesState = "pending"
    /\ \E d \in ListBodies : activeGames' = BodyGames(d)
    /\ loadGamesState' = "done"

\* loadGames after its await: the catch block
LoadGamesFail ==
    /\ loadGamesState = "pending"
    /\ loadGamesState' = "failed"
    /\ UNCHANGED activeGames

(***************************************************************************)
(* Lobby page: apiInstance.ts 177-370.  Writes to the DOM (the rendered     *)
(* lists, the start button) are display only and are not part of the state.*)
(***************************************************************************)
\* let currentGame = null
NoCurrentGame == [none |-> TRUE]

\* the candidate socket endpoints: two per API host
Endpoints == 4

\* players lists of GET /games/{id} and of player_list payloads
PageRosters == {<<Player(1, NameOf(1), TRUE)>>,
                <<Player(1, NameOf(1), TRUE), Player(2, NameOf(2), FALSE)>>}

PageInit ==
    /\ myGameId \in {Null, 5}
    /\ allGames = <<>>
    /\ currentGame = NoCurrentGame
    /\ channels = <<>>
    /\ rooms = {}
    /\ latestRound = Null
    /\ pageLocation = "lobby.html"
    /\ pageOut = <<[kind |-> "games", init |-> TRUE]>>
    /\ pageIn = <<>>

\* the answers the server can give to a request of the page; the body of a
\* games answer may be something else than an array
PageAnswers(r) ==
    { [type |-> "response", req |-> r, ok |-> FALSE] }
    \cup (IF r.kind = "games"
          THEN { [type |-> "response", req |-> r, ok |-> TRUE, data |-> d] :
                     d \in ListBodies }
          ELSE { [type |-> "response", req |-> r, ok |-> TRUE,
                  data |-> [id |-> r.id, players |-> l]] :
                     l \in IF r.id \in GameIds THEN PageRosters ELSE {} })

\* the server answers one of the outstanding requests
PageServerAnswer ==
    /\ pageLocation = "lobby.html"
    /\ pageIn = <<>>
    /\ \E i \in 1..Len(pageOut) :
          /\ \E resp \in PageAnswers(pageOut[i]) : pageIn' = <<resp>>
          /\ pageOut' = Remove(pageOut, i)
    /\ UNCHANGED pageState

\* the events a server can push on a connected socket: those of the games
\* the page has joined
PageEvents ==
    { [type |-> "player_list", game_id |-> g, players |-> l] :
          g \in rooms, l \in PageRosters }
    \cup { [type |-> t, game_id |-> g, round_id |-> r] :
              t \in {"player_joined", "game_started", "round_started"},
              g \in rooms, r \in {7} }

\* the server pushes an event
PageServerPush ==
    /\ pageLocation = "lobby.html"
    /\ pageIn = <<>>
    /\ \E k \in 1..Len(channels) : channels[k].state = "connected"
    /\ \E ev \in PageEvents : pageIn' = <<ev>>
    /\ UNCHANGED <<pageState, pageOut>>

\* loadAllGames up to its await, behind the refresh button
RefreshGames ==
    /\ pageLocation = "lobby.html"
    /\ Len(pageOut) < MaxPending
    /\ pageOut' = Append(pageOut, [kind |-> "games", init |-> FALSE])
    /\ UNCHANGED <<pageState, pageIn>>

\* selectGame up to its await, behind a click on a listed game
ClickGame ==
    /\ pageLocation = "lobby.html"
    /\ Len(pageOut) < MaxPending
    /\ \E k \in 1..Len(allGames) :
          pageOut' = Append(pageOut, [kind |-> "game", id |-> allGames[k]])
    /\ UNCHANGED <<pageState, pageIn>>

\* loadAllGames after its await (Array.isArray(data) ? data : [], or the
\* catch block); after the first load initLobby selects the stored game
LoadAllGamesDone(resp) ==
    /\ allGames' = IF resp.ok THEN BodyGames(resp.data) ELSE <<>>
    /\ pageOut' = IF resp.req.init /\ myGameId # Null
                  THEN Append(pageOut, [kind |-> "game", id |-> myGameId])
                  ELSE pageOut
    /\ UNCHANGED <<myGameId, currentGame, channels, rooms, latestRound, pageLocation>>

\* tryConnect(url): a new socket with its handlers, then socket.connect().
\* game: the gameId its handlers captured; root: the first socket made by the
\* same ensureSocketConnected call (tried counts the sockets of one call);
\* queued: join_game emits kept in its send buffer until it connects
NewChannel(game, root) ==
    [state |-> "connecting", game |-> game, root |-> root, queued |-> {}]

\* the sockets after socket.emit("join_game", {game_id}) on the variable socket
JoinOn(chs, game) ==
    IF chs[Len(chs)].state = "connecting"
    THEN [chs EXCEPT ![Len(chs)].queued = @ \cup {game}]
    ELSE chs

\* the joined games after socket.emit("join_game", {game_id}) on the variable
\* socket
JoinedAfter(chs, rs, game) ==
    IF chs[Len(chs)].state = "connected" THEN rs \cup {game} ELSE rs

\* ensureSocketConnected(gameId)
EnsureSocketConnected(game) ==
    IF channels # <<>> /\ channels[Len(channels)].state = "connected"
    THEN /\ rooms' = JoinedAfter(channels, rooms, game)
         /\ UNCHANGED channels
    ELSE /\ Len(channels) < MaxChannels
         /\ channels' = Append(channels, NewChannel(game, Len(channels) + 1))
         /\ UNCHANGED rooms

\* selectGame after its await: the try block
SelectGameOk(resp) ==
    /\ currentGame' = resp.data
    /\ EnsureSocketConnected(resp.req.id)
    /\ UNCHANGED <<myGameId, allGames, latestRound, pageLocation, pageOut>>

\* socket.on("connect") of socket k, after the socket has flushed its buffer
ChannelConnected(k) ==
    LET up == [channels EXCEPT ![k].state = "connected", ![k].queued = {}]
    IN  /\ channels[k].state = "connecting"
        /\ channels' = JoinOn(up, channels[k].game)
        /\ rooms' = JoinedAfter(up, rooms \cup channels[k].queued, channels[k].game)
        /\ UNCHANGED <<myGameId, allGames, currentGame, latestRound, pageLocation,
                       pageOut, pageIn>>

\* socket.on("connect_error") of socket k: socket.close() closes the variable
\* socket; socket k itself, when it is another one, keeps trying
ChannelConnectError(k) ==
    LET tried == Cardinality({j \in 1..Len(channels) :
                                 channels[j].root = channels[k].root})
        closed == [channels EXCEPT ![Len(channels)].state = "closed"]
    IN  /\ channels[k].state = "connecting"
        /\ IF tried < Endpoints
           THEN /\ Len(channels) < MaxChannels
                /\ channels' = Append(closed, NewChannel(channels[k].game,
                                                         channels[k].root))
           ELSE channels' = closed
        /\ UNCHANGED <<myGameId, allGames, currentGame, rooms, latestRound,
                       pageLocation, pageOut, pageIn>>

\* socket.on("player_list")
OnPagePlayerList(payload) ==
    /\ currentGame' = IF currentGame = NoCurrentGame
                      THEN [players |-> payload.players]
                      ELSE [currentGame EXCEPT !.players = payload.players]
    /\ UNCHANGED <<myGameId, allGames, channels, rooms, latestRound, pageLocation,
                   pageOut>>

\* socket.on("player_joined"): selectGame(currentGame.id) up to its await
OnPlayerJoined ==
    /\ Len(pageOut) < MaxPending
    /\ pageOut' = IF currentGame = NoCurrentGame
                  THEN pageOut
                  ELSE Append(pageOut, [kind |-> "game",
                                        id |-> IF "id" \in DOMAIN currentGame
                                               THEN currentGame.id ELSE Null])
    /\ UNCHANGED pageState

\* socket.on("game_started")
OnPageGameStarted ==
    /\ pageLocation' = "round.html"
    /\ UNCHANGED <<myGameId, allGames, currentGame, channels, rooms, latestRound,
                   pageOut>>

\* socket.on("round_started"), on a page that is not the round page
OnPageRoundStarted(payload) ==
    /\ latestRound' = payload.round_id
    /\ pageLocation' = "round.html"
    /\ UNCHANGED <<myGameId, allGames, currentGame, channels, rooms, pageOut>>

\* a response or a socket event arrives
PageDeliver ==
    /\ pageLocation = "lobby.html"
    /\ pageIn # <<>>
    /\ LET m == Head(pageIn)
       IN  CASE m.type = "response" /\ m.req.kind = "games" -> LoadAllGamesDone(m)
             [] m.type = "response" /\ m.req.kind = "game" /\ m.ok -> SelectGameOk(m)
             [] m.type = "response" /\ m.req.kind = "game" /\ ~m.ok ->
                    UNCHANGED <<pageState, pageOut>>
             [] m.type = "player_list" -> OnPagePlayerList(m)
             [] m.type = "player_joined" -> OnPlayerJoined
             [] m.type = "game_started" -> OnPageGameStarted
             [] m.type = "round_started" -> OnPageRoundStarted(m)
    /\ pageIn' = Tail(pageIn)

(***************************************************************************)
(* Entry form of the minimal App: socket.ts, lines 96-98, 143-158, 181-189 *)
(***************************************************************************)
\* useState("") of gameId and name; no request has been sent
AppEntryInit ==
    /\ appName = <<>>
    /\ appGameId = NoGame
    /\ appHttp = <<>>

\* the literal of name || "Host"
DefaultHostName == <<"H", "o", "s", "t">>

\* game ids as the "game id" input and the response body carry them
AppGameIds == {"5", "6"}

\* onChange of the "Your name" input
AppTypeName ==
    /\ \E t \in NameInputs : t # appName /\ appName' = t
    /\ UNCHANGED <<appGameId, appHttp, appState, appIn, appOut>>

\* onChange of the "game id" input
AppTypeGameId ==
    /\ \E g \in AppGameIds \cup {NoGame} : g # appGameId /\ appGameId' = g
    /\ UNCHANGED <<appName, appHttp, appState, appIn, appOut>>

\* createGame up to the fetch: the request carries name || "Host", and the
\* continuation keeps the name of this render
AppCreateGame ==
    /\ Len(appHttp) < MaxPending
    /\ appHttp' = Append(appHttp,
                         [host_name |-> IF appName = <<>> THEN DefaultHostName
                                                        ELSE appName,
                          name |-> appName])
    /\ UNCHANGED <<appName, appGameId, appState, appIn, appOut>>

\* createGame, the .then of an answered request: setGameId and the automatic
\* join_game
AppCreateDone ==
    /\ appOut = <<>>
    /\ \E i \in 1..Len(appHttp) : \E g \in AppGameIds :
          /\ appGameId' = g
          /\ AppEmit([type |-> "join_game", game_id |-> g,
                      name |-> appHttp[i].name])
          /\ appHttp' = Remove(appHttp, i)
    /\ UNCHANGED <<appName, appState, appIn>>

\* createGame, a request that fails: the promise has no catch, nothing is set
AppCreateRejected ==
    /\ \E i \in 1..Len(appHttp) : appHttp' = Remove(appHttp, i)
    /\ UNCHANGED <<appName, appGameId, appState, appIn, appOut>>

\* joinGame
AppJoinGame ==
    /\ appOut = <<>>
    /\ AppEmit([type |-> "join_game", game_id |-> appGameId, name |-> appName])
    /\ UNCHANGED <<appEntry, appState, appIn>>

\* startRound
AppStartRound ==
    /\ appOut = <<>>
    /\ AppEmit([type |-> "start_round", game_id |-> appGameId])
    /\ UNCHANGED <<appEntry, appState, appIn>>

(***************************************************************************)
(* Round page: apiInstance.ts 379-514.  Writes to the document other than  *)
(* the answer input and the submit button are display only, and so is      *)
(* loadAndRenderPlayers.  A call of tryFetch is one outstanding request    *)
(* from the call until it returns or throws.  The markup of the page is    *)
(* not among the sources: the submit button is taken to start disabled,    *)
(* since every path that allows a submission enables it explicitly.        *)
(***************************************************************************)
\* values of payload.round_id and data.current_round_id
RoundRefs == RoundIds \cup {Null}

\* texts typed into the answer input
AnswerInputs == {<<>>, <<" ">>, <<"a">>, <<"a", " ">>}

FallbackRequest == [kind |-> "game"]
SubmitRequest(rid, text) == [kind |-> "submit", round_id |-> rid, text |-> text]

\* the page script up to the first await: the stored round event, initSocket
\* and the call of tryGetCurrentRound
RoundInit ==
    /\ currentRoundId = latestRound
    /\ answerInput = <<>>
    /\ submitDisabled = (latestRound = Null)
    /\ roundSocket = "connecting"
    /\ roundTried = 1
    /\ roundOut = IF latestRound = Null THEN <<FallbackRequest>> ELSE <<>>

\* the user edits the answer input
RoundTypeAnswer ==
    /\ \E t \in AnswerInputs : t # answerInput /\ answerInput' = t
    /\ UNCHANGED <<currentRoundId, submitDisabled, roundSocket, roundTried,
                   roundOut, latestRound>>

\* socket.on("connect"): join_game is emitted, no state of the page changes
RoundConnected ==
    /\ roundSocket = "connecting"
    /\ roundSocket' = "connected"
    /\ UNCHANGED <<currentRoundId, answerInput, submitDisabled, roundTried,
                   roundOut, latestRound>>

\* socket.on("connect_error")
RoundConnectError ==
    /\ roundSocket = "connecting"
    /\ IF roundTried < Endpoints
       THEN roundTried' = roundTried + 1 /\ UNCHANGED roundSocket
       ELSE roundSocket' = "closed" /\ UNCHANGED roundTried
    /\ UNCHANGED <<currentRoundId, answerInput, submitDisabled, roundOut,
                   latestRound>>

\* socket.on("round_started")
RoundOnRoundStarted ==
    /\ roundSocket = "connected"
    /\ \E rid \in RoundRefs :
          /\ currentRoundId' = rid
          /\ latestRound' = rid
    /\ submitDisabled' = FALSE
    /\ UNCHANGED <<answerInput, roundSocket, roundTried, roundOut>>

\* tryGetCurrentRound after its await, the request answered
TryGetCurrentRoundOk ==
    /\ \E i \in 1..Len(roundOut) :
          /\ roundOut[i].kind = "game"
          /\ roundOut' = Remove(roundOut, i)
    /\ \E rid \in RoundRefs :
          IF rid # Null
          THEN currentRoundId' = rid /\ submitDisabled' = FALSE
          ELSE UNCHANGED <<currentRoundId, submitDisabled>>
    /\ UNCHANGED <<answerInput, roundSocket, roundTried, latestRound>>

\* tryGetCurrentRound, the catch
TryGetCurrentRoundFail ==
    /\ \E i \in 1..Len(roundOut) :
          /\ roundOut[i].kind = "game"
          /\ roundOut' = Remove(roundOut, i)
    /\ UNCHANGED <<currentRoundId, answerInput, submitDisabled, roundSocket,
                   roundTried, latestRound>>

\* the submit handler of answerForm up to its await; a disabled submit button
\* blocks the submission of the form
RoundSubmit ==
    /\ ~submitDisabled
    /\ Len(roundOut) < MaxPending
    /\ IF currentRoundId = Null \/ Trim(answerInput) = <<>>
       THEN UNCHANGED <<submitDisabled, roundOut>>
       ELSE /\ submitDisabled' = TRUE
            /\ roundOut' = Append(roundOut,
                                  SubmitRequest(currentRoundId, Trim(answerInput)))
    /\ UNCHANGED <<currentRoundId, answerInput, roundSocket, roundTried,
                   latestRound>>

\* the submit handler after its await, the request answered
RoundSubmitOk ==
    /\ \E i \in 1..Len(roundOut) :
          /\ roundOut[i].kind = "submit"
          /\ roundOut' = Remove(roundOut, i)
    /\ answerInput' = <<>>
    /\ UNCHANGED <<currentRoundId, submitDisabled, roundSocket, roundTried,
                   latestRound>>

\* the submit handler, the catch
RoundSubmitFail ==
    /\ \E i \in 1..Len(roundOut) :
          /\ roundOut[i].kind = "submit"
          /\ roundOut' = Remove(roundOut, i)
    /\ submitDisabled' = FALSE
    /\ UNCHANGED <<currentRoundId, answerInput, roundSocket, roundTried,
                   latestRound>>

(***************************************************************************)
(* The voting list: PlayGame.tsx 164-193 and displayAnswersForVoting of    *)
(* front-needs/api-integration.md 241-269, each applied to two revealed    *)
(* payloads at once so that what they show can be compared.                *)
(***************************************************************************)
\* authors of a submission, as the server knows them
Authors == {1, 2}
AvatarOf(a) == IF a = 1 THEN "cat" ELSE "fox"

\* one revealed submission as the server may send it: the fields PlayGame reads
\* (submission_id, anon_id, text), the fields displayAnswersForVoting reads
\* (id, text, author_avatar) and the author's id and name
Revealed(text, a) ==
    [submission_id |-> 101, id |-> 101, anon_id |-> "A", text |-> text,
     author_id |-> a, author_name |-> NameOf(a), author_avatar |-> AvatarOf(a)]

RevealedLists ==
    SeqsUpTo({ Revealed(t, a) : t \in {"chips", "nuts"}, a \in Authors }, MaxShown)

\* voteCounts[s.submission_id] || 0
CountOf(counts, sid) == IF sid \in DOMAIN counts THEN counts[sid] ELSE 0

\* the voting branch of PlayGame's render: per submission the line
\* {s.anon_id}: {s.text} and the count
VotingView(subs, counts) ==
    [k \in 1..Len(subs) |->
        [line |-> <<subs[k].anon_id, subs[k].text>>,
         count |-> CountOf(counts, subs[k].submission_id)]]

\* displayAnswersForVoting: per answer a card with its dataset, the text and
\* the line Anonymous - ${answer.author_avatar}
DisplayAnswersForVoting(allAnswers) ==
    [k \in 1..Len(allAnswers) |->
        [answerId |-> allAnswers[k].id,
         index |-> k - 1,
         content |-> allAnswers[k].text,
         author |-> <<"Anonymous - ", allAnswers[k].author_avatar>>]]

TwinInit ==
    /\ twinReveal \in RevealedLists \X RevealedLists
    /\ twinCounts \in {EmptyMap, (101 :> 1)}
    /\ twinShown = <<>>
    /\ twinCards = <<>>

\* PlayGame renders its voting phase for both payloads
ShowVoting ==
    /\ twinShown = <<>>
    /\ twinShown' = <<VotingView(twinReveal[1], twinCounts),
                      VotingView(twinReveal[2], twinCounts)>>
    /\ UNCHANGED <<twinReveal, twinCounts, twinCards>>

\* switchToVoting calls displayAnswersForVoting for both payloads
ShowCards ==
    /\ twinCards = <<>>
    /\ twinCards' = <<DisplayAnswersForVoting(twinReveal[1]),
                      DisplayAnswersForVoting(twinReveal[2])>>
    /\ UNCHANGED <<twinReveal, twinCounts, twinShown>>

(***************************************************************************)
(* tryFetch: apiInstance.ts 16-43.  One call, from its first request to    *)
(* its return or throw.  The network is the environment: each request is   *)
(* rejected, or answered with a status and a body text.                    *)
(***************************************************************************)
API_HOSTS == <<"http://127.0.0.1:8000", "http://localhost">>

\* the template literals `${host}/api${path}` and `${host}${path}`, kept as
\* their parts
Url(host, prefix, path) == <<host, prefix, path>>

\* const candidates = [`${host}/api${path}`, `${host}${path}`]
Candidates(host, path) == <<Url(host, "/api", path), Url(host, "", path)>>

FetchPaths == {"/games", "/players"}

\* body texts: empty, a JSON number, a JSON array, and text that is not JSON
BodyTexts == {"", "5", "[]", "<html>"}

\* data = text ? JSON.parse(text) : null, with the text itself when
\* JSON.parse throws
ParseBody(text) ==
    CASE text = "" -> [kind |-> "null"]
      [] text = "5" -> [kind |-> "number", value |-> 5]
      [] text = "[]" -> [kind |-> "array", value |-> <<>>]
      [] OTHER -> [kind |-> "text", value |-> text]

\* what a request can meet: fetch rejects, res.text() rejects, or a response
\* with a status and a body arrives (res.ok is status in 200..299)
FetchOutcomes ==
    { [kind |-> "rejected"] }
    \cup { [kind |-> "unreadable", status |-> st] : st \in {200, 500} }
    \cup { [kind |-> "response", status |-> st, text |-> t] :
              st \in {200, 201, 404, 500}, t \in BodyTexts }

ResOk(outcome) ==
    /\ outcome.kind = "response"
    /\ outcome.status >= 200
    /\ outcome.status <= 299

FetchInit ==
    /\ fetchPath \in FetchPaths
    /\ fetchHost = 1
    /\ fetchUrl = 1
    /\ fetchLog = <<>>
    /\ fetchState = "running"
    /\ fetchReturn = [none |-> TRUE]

\* faulty variant: any response is returned, whatever its status
TryUrlAnyStatus ==
    /\ fetchState = "running"
    /\ fetchHost <= Len(API_HOSTS)
    /\ LET candidates == Candidates(API_HOSTS[fetchHost], fetchPath)
           url == candidates[fetchUrl]
       IN  \E outcome \in FetchOutcomes :
             /\ fetchLog' = Append(fetchLog, [url |-> url, outcome |-> outcome])
             /\ IF outcome.kind = "response"
                THEN /\ fetchState' = "returned"
                     /\ fetchReturn' = [url |-> url, data |-> ParseBody(outcome.text)]
                     /\ UNCHANGED <<fetchHost, fetchUrl>>
                ELSE /\ IF fetchUrl < Len(candidates)
                        THEN fetchUrl' = fetchUrl + 1 /\ UNCHANGED fetchHost
                        ELSE fetchUrl' = 1 /\ fetchHost' = fetchHost + 1
                     /\ UNCHANGED <<fetchState, fetchReturn>>
    /\ UNCHANGED fetchPath

\* one pass of the inner loop: the request of the next candidate and the
\* handling of what answers it
TryUrl ==
    /\ fetchState = "running"
    /\ fetchHost <= Len(API_HOSTS)
    /\ LET candidates == Candidates(API_HOSTS[fetchHost], fetchPath)
           url == candidates[fetchUrl]
       IN  \E outcome \in FetchOutcomes :
             /\ fetchLog' = Append(fetchLog, [url |-> url, outcome |-> outcome])
             /\ IF ResOk(outcome)
                THEN /\ fetchState' = "returned"
                     /\ fetchReturn' = [url |-> url, data |-> ParseBody(outcome.text)]
                     /\ UNCHANGED <<fetchHost, fetchUrl>>
                ELSE /\ IF fetchUrl < Len(candidates)
                        THEN fetchUrl' = fetchUrl + 1 /\ UNCHANGED fetchHost
                        ELSE fetchUrl' = 1 /\ fetchHost' = fetchHost + 1
                     /\ UNCHANGED <<fetchState, fetchReturn>>
    /\ UNCHANGED fetchPath

\* throw new Error("All backend hosts failed"), behind both loops
ThrowAllFailed ==
    /\ fetchState = "running"
    /\ fetchHost > Len(API_HOSTS)
    /\ fetchState' = "threw"
    /\ UNCHANGED <<fetchPath, fetchHost, fetchUrl, fetchLog, fetchReturn>>

(***************************************************************************)
(* A view that is not mounted keeps the values it was constructed with.    *)
(***************************************************************************)
PlayIdle ==
    /\ PlayInit
    /\ isHost = FALSE

BoardIdle == BoardInit

AppIdle == AppInit /\ AppEntryInit

RoomIdle ==
    /\ RoomInit
    /\ storedName = NoName

LobbyIdle == LobbyInit /\ RouterLobbyInit

PageIdle ==
    /\ PageInit
    /\ myGameId = Null

RoundIdle == RoundInit

TwinIdle ==
    /\ twinReveal = <<<<>>, <<>>>>
    /\ twinCounts = EmptyMap
    /\ twinShown = <<>>
    /\ twinCards = <<>>

\* no call of tryFetch is followed
FetchIdle ==
    /\ fetchPath = "/games"
    /\ fetchHost = 1
    /\ fetchUrl = 1
    /\ fetchLog = <<>>
    /\ fetchState = "idle"
    /\ fetchReturn = [none |-> TRUE]

\* the room's socket effect has run once and is not followed further
RejoinIdle ==
    /\ socketCount = 1
    /\ openSockets = {1}
    /\ linkState = "connecting"
    /\ effectDeps = <<Null, DefaultName, FALSE>>
    /\ serverPlayer = [none |-> TRUE]

\* a play view that has left the screen with nothing outstanding
PlayGone ==
    /\ isHost = FALSE
    /\ roundsTotal = DefaultRounds
    /\ roundIndex = 0
    /\ question = NoQuestion
    /\ roundId = Null
    /\ answerText = <<>>
    /\ submissions = <<>>
    /\ voteCounts = EmptyMap
    /\ phase = "waiting"
    /\ loadState = "done"
    /\ playMounted = FALSE
    /\ playSocketOpen = FALSE
    /\ playIn = <<>>
    /\ playOut = <<>>

\* a room that has left the screen with nothing outstanding
RoomGone ==
    /\ players = <<>>
    /\ host_player_id = 0
    /\ playerId = Null
    /\ playerName = DefaultName
    /\ isReady = FALSE
    /\ storedName = NoName
    /\ storedId = Null
    /\ metaState = "done"
    /\ navigated = FALSE
    /\ roomMounted = FALSE
    /\ roomSocketOpen = FALSE
    /\ roomIn = <<>>
    /\ roomOut = <<>>

\* the lobby page after it has moved to round.html
PageLeft ==
    /\ myGameId = 5
    /\ allGames = <<>>
    /\ currentGame = NoCurrentGame
    /\ channels = <<>>
    /\ rooms = {}
    /\ pageLocation = "round.html"
    /\ pageOut = <<>>
    /\ pageIn = <<>>

(***************************************************************************)
(* Specifications, one per view.  SpecPlay and SpecRoom follow a view      *)
(* while it is on the screen, SpecLife follows both beyond their unmount.  *)
(***************************************************************************)
notPlay == <<pageVars, boardVars, appVars, roomVars, lobbyVars, roundVars,
    twinVars, fetchVars, rejoinVars>>
notBoard == <<pageVars, playVars, appVars, roomVars, lobbyVars, roundVars,
    twinVars, fetchVars, rejoinVars>>
notApp == <<pageVars, playVars, boardVars, roomVars, lobbyVars, roundVars,
    twinVars, fetchVars, rejoinVars>>
notRoom == <<pageVars, playVars, boardVars, appVars, lobbyVars, roundVars,
    twinVars, fetchVars, rejoinVars>>
notLobby == <<playVars, boardVars, appVars, roomVars, pageVars, roundVars,
    twinVars, fetchVars, rejoinVars>>
notPage == <<playVars, boardVars, appVars, roomVars, lobbyVars, roundVars,
    twinVars, fetchVars, rejoinVars>>

InitPlay ==
    PlayInit /\ BoardIdle /\ AppIdle /\ RoomIdle /\ LobbyIdle /\ PageIdle /\ RoundIdle /\ TwinIdle /\ FetchIdle /\ RejoinIdle
NextPlay ==
    \/ playSocketOpen /\ PlayServerPush /\ UNCHANGED <<playLife, notPlay>>
    \/ PlayServerTake /\ UNCHANGED <<playLife, notPlay>>
    \/ LoadOk /\ UNCHANGED <<playLife, notPlay>>
    \/ LoadFail /\ UNCHANGED <<playLife, notPlay>>
    \/ PlayDeliver /\ UNCHANGED <<playLife, notPlay>>
    \/ playMounted /\ HostStartRound /\ UNCHANGED <<playLife, notPlay>>
    \/ playMounted /\ TypeAnswer /\ UNCHANGED <<playLife, notPlay>>
    \/ playMounted /\ SubmitAnswer /\ UNCHANGED <<playLife, notPlay>>
    \/ playMounted /\ Reveal /\ UNCHANGED <<playLife, notPlay>>
    \/ playMounted /\ Vote /\ UNCHANGED <<playLife, notPlay>>
SpecPlay == InitPlay /\ [][NextPlay]_vars

InitBoard ==
    BoardInit /\ PlayIdle /\ AppIdle /\ RoomIdle /\ LobbyIdle /\ PageIdle /\ RoundIdle /\ TwinIdle /\ FetchIdle /\ RejoinIdle
NextBoard ==
    \/ LoadResults /\ UNCHANGED notBoard
SpecBoard == InitBoard /\ [][NextBoard]_vars

InitApp ==
    AppIdle /\ PlayIdle /\ BoardIdle /\ RoomIdle /\ LobbyIdle /\ PageIdle /\ RoundIdle /\ TwinIdle /\ FetchIdle /\ RejoinIdle
NextApp ==
    \/ AppServerPush /\ UNCHANGED <<appEntry, notApp>>
    \/ AppServerTake /\ UNCHANGED <<appEntry, notApp>>
    \/ AppDeliver /\ UNCHANGED <<appEntry, notApp>>
    \/ AppTypeAnswer /\ UNCHANGED <<appEntry, notApp>>
    \/ AppSubmitAnswer /\ UNCHANGED <<appEntry, notApp>>
    \/ AppReveal /\ UNCHANGED <<appEntry, notApp>>
    \/ AppVote /\ UNCHANGED <<appEntry, notApp>>
SpecApp == InitApp /\ [][NextApp]_vars

InitEntry == InitApp
NextEntry ==
    \/ AppTypeName /\ UNCHANGED notApp
    \/ AppTypeGameId /\ UNCHANGED notApp
    \/ AppCreateGame /\ UNCHANGED notApp
    \/ AppCreateDone /\ UNCHANGED notApp
    \/ AppCreateRejected /\ UNCHANGED notApp
    \/ AppJoinGame /\ UNCHANGED notApp
    \/ AppStartRound /\ UNCHANGED notApp
    \/ AppServerTake /\ UNCHANGED <<appEntry, notApp>>
SpecEntry == InitEntry /\ [][NextEntry]_vars

notRound == <<playVars, boardVars, appVars, roomVars, lobbyVars, myGameId,
              allGames, currentGame, channels, rooms, pageLocation, pageOut,
              pageIn, twinVars, fetchVars, rejoinVars>>
InitRound ==
    /\ latestRound \in RoundRefs
    /\ RoundInit
    /\ PageLeft /\ PlayIdle /\ BoardIdle /\ AppIdle /\ RoomIdle /\ LobbyIdle
    /\ TwinIdle /\ FetchIdle /\ RejoinIdle
NextRound ==
    \/ RoundTypeAnswer /\ UNCHANGED notRound
    \/ RoundConnected /\ UNCHANGED notRound
    \/ RoundConnectError /\ UNCHANGED notRound
    \/ RoundOnRoundStarted /\ UNCHANGED notRound
    \/ TryGetCurrentRoundOk /\ UNCHANGED notRound
    \/ TryGetCurrentRoundFail /\ UNCHANGED notRound
    \/ RoundSubmit /\ UNCHANGED notRound
    \/ RoundSubmitOk /\ UNCHANGED notRound
    \/ RoundSubmitFail /\ UNCHANGED notRound
SpecRound == InitRound /\ [][NextRound]_vars

InitRoom ==
    RoomInit /\ PlayIdle /\ BoardIdle /\ AppIdle /\ LobbyIdle /\ PageIdle /\ RoundIdle /\ TwinIdle /\ FetchIdle /\ RejoinIdle
NextRoom ==
    \/ roomSocketOpen /\ RoomServerPush /\ UNCHANGED <<roomLife, notRoom>>
    \/ RoomServerTake /\ UNCHANGED <<roomLife, notRoom>>
    \/ MetaOk /\ UNCHANGED <<roomLife, notRoom>>
    \/ MetaFail /\ UNCHANGED <<roomLife, notRoom>>
    \/ RoomDeliver /\ UNCHANGED <<roomLife, notRoom>>
    \/ roomMounted /\ ToggleReady /\ UNCHANGED <<roomLife, notRoom>>
    \/ roomMounted /\ StartGame /\ UNCHANGED <<roomLife, notRoom>>
    \/ roomMounted /\ KickPlayer /\ UNCHANGED <<roomLife, notRoom>>
SpecRoom == InitRoom /\ [][NextRoom]_vars

\* the room and the play view over their whole life: one of the two is on the
\* screen, the other has left it
InitLife ==
    /\ \/ RoomInit /\ PlayGone
       \/ PlayInit /\ RoomGone
    /\ BoardIdle /\ AppIdle /\ LobbyIdle /\ PageIdle /\ RoundIdle /\ TwinIdle /\ FetchIdle /\ RejoinIdle
NextLife ==
    \/ NextRoom
    \/ NextPlay
    \/ RoomUnmount /\ UNCHANGED notRoom
    \/ PlayUnmount /\ UNCHANGED notPlay
SpecLife == InitLife /\ [][NextLife]_vars

notTwin == <<playVars, boardVars, appVars, roomVars, lobbyVars, pageVars,
             roundVars, fetchVars, rejoinVars>>
InitTwin ==
    /\ TwinInit
    /\ PlayIdle /\ BoardIdle /\ AppIdle /\ RoomIdle /\ LobbyIdle /\ PageIdle
    /\ RoundIdle /\ FetchIdle /\ RejoinIdle
NextTwin ==
    \/ ShowVoting /\ UNCHANGED notTwin
    \/ ShowCards /\ UNCHANGED notTwin
SpecTwin == InitTwin /\ [][NextTwin]_vars

\* one call of tryFetch; every request is answered or fails in the end, so
\* the loop's next pass is always taken
notFetch == <<playVars, boardVars, appVars, roomVars, lobbyVars, pageVars,
              roundVars, twinVars, rejoinVars>>
InitFetch ==
    /\ FetchInit
    /\ PlayIdle /\ BoardIdle /\ AppIdle /\ RoomIdle /\ LobbyIdle /\ PageIdle
    /\ RoundIdle /\ TwinIdle /\ RejoinIdle
NextFetch ==
    \/ TryUrl /\ UNCHANGED notFetch
    \/ ThrowAllFailed /\ UNCHANGED notFetch
SpecFetch == InitFetch /\ [][NextFetch]_vars

\* the game room while it stays on the screen, with its socket effect
\* re-run whenever a dependency has changed; a re-run that is due is run
notRejoin == <<pageVars, playVars, boardVars, appVars, lobbyVars, roundVars,
               twinVars, fetchVars>>
InitRejoin ==
    /\ RoomInit /\ RejoinInit
    /\ PlayIdle /\ BoardIdle /\ AppIdle /\ LobbyIdle /\ PageIdle /\ RoundIdle
    /\ TwinIdle /\ FetchIdle
NextRejoin ==
    \/ SocketConnects /\ UNCHANGED notRejoin
    \/ RoomDeliver /\ UNCHANGED <<roomLife, rejoinVars, notRejoin>>
    \/ ServerAnswersJoin /\ UNCHANGED notRejoin
    \/ ServerBroadcast /\ UNCHANGED notRejoin
    \/ MetaOk /\ UNCHANGED <<roomLife, rejoinVars, notRejoin>>
    \/ MetaFail /\ UNCHANGED <<roomLife, rejoinVars, notRejoin>>
    \/ EffectRerun /\ UNCHANGED notRejoin
SpecRejoin == InitRejoin /\ [][NextRejoin]_vars
SpecRejoinFair == SpecRejoin /\ WF_vars(EffectRerun /\ UNCHANGED notRejoin)
SpecFetchFair == SpecFetch /\ WF_vars(NextFetch)

InitLobby ==
    LobbyInit /\ RouterLobbyInit /\ PlayIdle /\ BoardIdle /\ AppIdle /\ RoomIdle /\ PageIdle /\ RoundIdle /\ TwinIdle /\ FetchIdle /\ RejoinIdle
NextLobby ==
    \/ LobbyServerAnswer /\ UNCHANGED <<routerLobbyVars, notLobby>>
    \/ LobbyDeliver /\ UNCHANGED <<routerLobbyVars, notLobby>>
    \/ TypeName /\ UNCHANGED <<routerLobbyVars, notLobby>>
    \/ PollTick /\ UNCHANGED <<routerLobbyVars, notLobby>>
    \/ HandleCreateGame /\ UNCHANGED <<routerLobbyVars, notLobby>>
    \/ HandleJoinGame /\ UNCHANGED <<routerLobbyVars, notLobby>>
SpecLobby == InitLobby /\ [][NextLobby]_vars

InitPage ==
    PageInit /\ PlayIdle /\ BoardIdle /\ AppIdle /\ RoomIdle /\ LobbyIdle /\ RoundIdle /\ TwinIdle /\ FetchIdle /\ RejoinIdle
NextPage ==
    \/ PageServerAnswer /\ UNCHANGED notPage
    \/ PageServerPush /\ UNCHANGED notPage
    \/ RefreshGames /\ UNCHANGED notPage
    \/ ClickGame /\ UNCHANGED notPage
    \/ PageDeliver /\ UNCHANGED notPage
    \/ (\E k \in 1..Len(channels) : ChannelConnected(k)) /\ UNCHANGED notPage
    \/ (\E k \in 1..Len(channels) : ChannelConnectError(k)) /\ UNCHANGED notPage
SpecPage == InitPage /\ [][NextPage]_vars

\* the three lobbies while their users only look at the list of games
notGames == <<playVars, boardVars, appVars, roomVars, roundVars,
    twinVars, fetchVars, rejoinVars>>
InitGames ==
    LobbyIdle /\ PageIdle /\ PlayIdle /\ BoardIdle /\ AppIdle /\ RoomIdle /\ RoundIdle /\ TwinIdle /\ FetchIdle /\ RejoinIdle
NextGames ==
    \/ LobbyServerAnswer /\ UNCHANGED <<routerLobbyVars, pageVars, notGames>>
    \/ LobbyDeliver /\ UNCHANGED <<routerLobbyVars, pageVars, notGames>>
    \/ PollTick /\ UNCHANGED <<routerLobbyVars, pageVars, notGames>>
    \/ LoadGamesOk /\ UNCHANGED <<lobbyState, lobbyOut, lobbyIn, pageVars, notGames>>
    \/ LoadGamesFail /\ UNCHANGED <<lobbyState, lobbyOut, lobbyIn, pageVars, notGames>>
    \/ PageServerAnswer /\ UNCHANGED <<lobbyVars, notGames>>
    \/ PageDeliver /\ UNCHANGED <<lobbyVars, notGames>>
    \/ RefreshGames /\ UNCHANGED <<lobbyVars, notGames>>
SpecGames == InitGames /\ [][NextGames]_vars

(***************************************************************************)
(* Properties of the play view.                                            *)
(***************************************************************************)
\* this step hands a pushed event of the given type to its handler
Delivered(type) ==
    /\ playIn # <<>>
    /\ Head(playIn).type = type
    /\ playIn' = Tail(playIn)

\* this step emits a message of one of the given types
Emitted(types) ==
    /\ Len(playOut') > Len(playOut)
    /\ SubSeq(playOut', 1, Len(playOut)) = playOut
    /\ playOut'[Len(playOut')].type \in types

\* the submissions list a submissions_revealed payload carries
PayloadSubmissions(data) ==
    IF "submissions" \in DOMAIN data THEN data.submissions ELSE <<>>

PhaseRank(p) ==
    CASE p = "waiting" -> 0
      [] p = "collecting" -> 1
      [] p = "voting" -> 2
      [] p = "finished" -> 3

\* C3: after a submissions_revealed event the submission list is the payload's
\* list and the vote tally is empty, whatever events came before.
C3_RevealResetsTally ==
    [][Delivered("submissions_revealed") =>
          /\ submissions' = PayloadSubmissions(Head(playIn).data)
          /\ voteCounts' = EmptyMap]_vars

\* C6: the round index starts at 0, grows by exactly 1 on each round_started
\* event and is changed by no other step.
C6_RoundIndexCounts ==
    /\ roundIndex = 0
    /\ [][IF Delivered("round_started")
          THEN roundIndex' = roundIndex + 1
          ELSE roundIndex' = roundIndex]_vars

C6_Witness ==
    /\ roundIndex = 2
    /\ phase = "finished"
    /\ loadState = "done"

\* C7: the round index never exceeds the configured round count.
C7_RoundIndexBounded == roundIndex <= roundsTotal

\* C8: within a round the phase only moves forward: a reveal is applied only
\* from collecting, a round_finished only from voting, and only a new round
\* takes the phase back from voting or finished.
C8_PhaseOrder ==
    [][/\ Delivered("submissions_revealed") => phase = "collecting"
       /\ Delivered("round_finished") => phase = "voting"
       /\ PhaseRank(phase') < PhaseRank(phase) => Delivered("round_started")]_vars

\* C9: a start-round request, a reveal request and a vote each emit one
\* event and leave phase, round id, round index, submissions and tally alone;
\* only a round_started event makes the phase collecting, and the tally
\* changes only through a server event.
C9_LocalActionsOnlyRequest ==
    [][/\ Emitted({"start_round", "reveal_submissions", "vote_submission"}) =>
             /\ Len(playOut') = Len(playOut) + 1
             /\ UNCHANGED <<phase, roundId, roundIndex, submissions, voteCounts>>
       /\ (phase' = "collecting" /\ phase # "collecting") =>
             Delivered("round_started")
       /\ voteCounts' # voteCounts =>
             \/ Delivered("vote_update")
             \/ Delivered("round_started") /\ voteCounts' = EmptyMap]_vars

C9_Witness ==
    /\ phase = "voting"
    /\ playOut # <<>>
    /\ playOut[1].type = "vote_submission"
    /\ playOut[1].submission_id = 102
    /\ voteCounts = EmptyMap

\* C10 as stated: a next-round request in the finished phase makes the phase
\* waiting.
C10_NextRoundGoesWaiting ==
    [][(phase = "finished" /\ Emitted({"start_round"})) => phase' = "waiting"]_vars

\* C10 as amended: a next-round request in the finished phase leaves the
\* phase finished; it stays finished until a server event is handled, and a
\* round_started event moves it to collecting.
C10_NextRoundStaysFinished ==
    [][/\ (phase = "finished" /\ Emitted({"start_round"})) => phase' = "finished"
       /\ (phase = "finished" /\ Delivered("round_started")) => phase' = "collecting"
       /\ (phase = "finished" /\ phase' # "finished") =>
             (playIn # <<>> /\ playIn' = Tail(playIn))]_vars

C10_Witness ==
    /\ phase = "finished"
    /\ roundIndex = 1
    /\ playOut = <<[type |-> "start_round"]>>

\* C11: once the configured round count is known and the round whose index
\* equals it has finished, the round cycle is over: no further start_round
\* request is emitted.
C11_NoStartAfterLastRound ==
    [][(loadState = "done" /\ phase = "finished" /\ roundIndex >= roundsTotal)
          => ~Emitted({"start_round"})]_vars

(***************************************************************************)
(* Properties of the leaderboard renderer.                                 *)
(***************************************************************************)
\* C5: the element at 0-based position i of the list is shown with rank i+1:
\* the ranks are 1..N in list order, ties included, and an empty list gives
\* an empty board.
C5_RanksByPosition ==
    currentPage = ResultsPage =>
        /\ Len(board) = Len(leaderboard)
        /\ \A i \in 0..(Len(leaderboard) - 1) :
              /\ board[i + 1].rank = i + 1
              /\ board[i + 1].name = leaderboard[i + 1].name
              /\ board[i + 1].score = leaderboard[i + 1].score
        /\ leaderboard = <<>> => board = <<>>

C5_Witness ==
    /\ currentPage = ResultsPage
    /\ Len(board) = 3
    /\ board[1].score = board[2].score
    /\ board[1].rank = 1
    /\ board[2].rank = 2
    /\ board[3].rank = 3

(***************************************************************************)
(* Properties of the minimal App.                                          *)
(***************************************************************************)
\* this step emits a message of one of the given types on the App's socket
AppEmitted(types) ==
    /\ Len(appOut') > Len(appOut)
    /\ SubSeq(appOut', 1, Len(appOut)) = appOut
    /\ appOut'[Len(appOut')].type \in types

\* C16: with a name that is empty or only whitespace (or, when joining by id,
\* an empty game id) creating or joining a game issues no HTTP request and
\* emits no socket event.
C16_BlankNameSendsNothing ==
    [][/\ Len(appHttp') > Len(appHttp) => Trim(appName) # <<>>
       /\ AppEmitted({"join_game"}) =>
              LET msg == appOut'[Len(appOut')]
              IN  Trim(msg.name) # <<>> /\ msg.game_id # NoGame]_vars

\* C2: an answer that is empty or only whitespace is never emitted (here by
\* the minimal App's submitAnswer).
C2_BlankAnswerNotSent ==
    [][AppEmitted({"submit_answer"}) => Trim(submissionText) # <<>>]_vars

(***************************************************************************)
(* Properties of the game-room view.                                       *)
(***************************************************************************)
\* this step hands a pushed event of the given type to its handler
RoomDelivered(type) ==
    /\ roomIn # <<>>
    /\ Head(roomIn).type = type
    /\ roomIn' = Tail(roomIn)

\* this step emits a message of one of the given types on the room's socket
RoomEmitted(types) ==
    /\ Len(roomOut') > Len(roomOut)
    /\ SubSeq(roomOut', 1, Len(roomOut)) = roomOut
    /\ roomOut'[Len(roomOut')].type \in types

\* the player ids of a roster
Ids(list) == {list[k].id : k \in 1..Len(list)}

\* C1: after a player_list event the roster holds exactly the players of
\* that payload: no player absent from it remains.
C1_RosterIsLatestList ==
    [][RoomDelivered("player_list") =>
          Ids(players') = Ids(Head(roomIn).players)]_vars

\* C4: a start_game event is emitted only while at least 2 players are
\* present.
C4_StartNeedsTwoPlayers ==
    [][RoomEmitted({"start_game"}) => Len(players) >= 2]_vars


EveryoneReady(list) == Len(list) > 0 /\ \A k \in 1..Len(list) : list[k].ready

\* C13: when a player_list broadcast with at least one player, all of them
\* ready, is handled in the host's view, the Start Game control is enabled
\* (allReady holds), whatever roster events came before.
C13_AllReadyAfterReadyList ==
    [][(/\ RoomDelivered("player_list")
        /\ isHostOfRoom
        /\ EveryoneReady(Head(roomIn).players))
          => allReady']_vars

(***************************************************************************)
(* Properties of the lobby.                                                *)
(***************************************************************************)
\* this step hands the lobby the response to a request of the given kind
LobbyAnswered(kind, ok) ==
    /\ lobbyIn # <<>>
    /\ Head(lobbyIn).req.kind = kind
    /\ Head(lobbyIn).ok = ok
    /\ lobbyIn' = Tail(lobbyIn)

\* this step sends an HTTP request of the given kind
LobbyRequested(kind) ==
    /\ Len(lobbyOut') = Len(lobbyOut) + 1
    /\ SubSeq(lobbyOut', 1, Len(lobbyOut)) = lobbyOut
    /\ lobbyOut'[Len(lobbyOut')].kind = kind

\* C14: when a list-games request fails, the list of games is empty afterwards
\* whatever was fetched before (in the Lobby, where an error message is set as
\* well, in the router lobby and on the lobby page), and each list is always
\* a list that can be rendered.
C14_FailedListGivesEmptyList ==
    /\ [](games \in GameLists /\ activeGames \in GameLists /\ allGames \in GameLists)
    /\ [][/\ (LobbyAnswered("games", FALSE) /\ Head(lobbyIn).req.live) =>
                (games' = <<>> /\ error' = "Failed to fetch games")
          /\ (loadGamesState = "pending" /\ loadGamesState' = "failed") =>
                activeGames' = <<>>
          /\ (/\ pageIn # <<>>
              /\ Head(pageIn).type = "response"
              /\ Head(pageIn).req.kind = "games"
              /\ ~Head(pageIn).ok
              /\ pageIn' = Tail(pageIn)) => allGames' = <<>>]_vars

\* all three lists are empty after a failed request, and the Lobby has kept
\* polling
C14_Witness ==
    /\ error = "Failed to fetch games"
    /\ games = <<>>
    /\ Len(lobbyOut) = 2
    /\ loadGamesState = "failed"
    /\ activeGames = <<>>
    /\ allGames = <<>>
    /\ pageOut = <<>>
    /\ pageIn = <<>>

\* C15: a create-game attempt that fails leaves the stored player name and
\* the game id as they were before the attempt (neither sending the request
\* nor handling the failure changes them), sets an error, clears the loading
\* flag and does not replace the lobby.
C15_FailedCreateLeavesState ==
    [][/\ LobbyRequested("create") => UNCHANGED <<lobbyPlayer, gameId>>
       /\ (LobbyAnswered("create", FALSE) /\ Head(lobbyIn).req.live) =>
             /\ error' # NoError
             /\ ~loading'
             /\ UNCHANGED <<lobbyPlayer, gameId, polling>>]_vars

\* C17: the polling interval is registered exactly while no game id is
\* recorded; a create or join answered with a game id records it and cancels
\* the interval; a list-games request is sent only while no game id is
\* recorded.
C17_PollsOnlyWhileNoGame ==
    /\ [](polling <=> gameId = NoGame)
    /\ [][/\ LobbyRequested("games") => (polling' /\ gameId' = NoGame)
          /\ \A kind \in {"create", "join"} :
                (LobbyAnswered(kind, TRUE) /\ Head(lobbyIn).game_id # Null) =>
                    (gameId' = IdString(Head(lobbyIn).game_id) /\ ~polling')]_vars

\* a join was answered with game 5: the interval is gone while a list request
\* sent before is still unanswered
C17_Witness ==
    /\ gameId = "5"
    /\ lobbyPlayer = <<"a">>
    /\ ~polling
    /\ lobbyOut = <<[kind |-> "games", live |-> FALSE]>>

(***************************************************************************)
(* Properties of the lobby page.                                           *)
(***************************************************************************)
\* the sockets of the page that are open or connecting
OpenChannels ==
    {k \in 1..Len(channels) : channels[k].state \in {"connecting", "connected"}}

\* C18: at most one event channel of the page is open or connecting at any
\* time.
C18_AtMostOneChannel == Cardinality(OpenChannels) <= 1

\* C19: once the page shows a game, a player_list, game_started or
\* round_started event of another game neither changes the shown game and its
\* roster nor navigates the page.
C19_NoEventOfAnotherGame ==
    [][(/\ pageIn # <<>>
        /\ Head(pageIn).type \in {"player_list", "game_started", "round_started"}
        /\ pageIn' = Tail(pageIn)
        /\ "id" \in DOMAIN currentGame
        /\ Head(pageIn).game_id # currentGame.id)
          => UNCHANGED <<currentGame, pageLocation>>]_vars

(***************************************************************************)
(* Properties of the round page.                                           *)
(***************************************************************************)
\* submission requests of the round page that are in flight
SubmitsInFlight == {i \in 1..Len(roundOut) : roundOut[i].kind = "submit"}

\* C20: on the round page the submit button is disabled for the whole time a
\* submission request is in flight, so at most one submission request is
\* outstanding at any time.
C20_DisabledWhileInFlight ==
    /\ SubmitsInFlight # {} => submitDisabled
    /\ Cardinality(SubmitsInFlight) <= 1

(***************************************************************************)
(* Properties of views that have left the screen.                          *)
(***************************************************************************)
\* what the room holds: the component's state, localStorage and the route
roomView == <<players, host_player_id, playerId, playerName, isReady,
              storedName, storedId, navigated>>

\* C21: after a game-room or play view unmounts its socket is closed, and no
\* later socket event and no late HTTP response (game metadata, round count)
\* changes that view's state.
C21_UnmountedViewIsFrozen ==
    /\ [](~roomMounted => ~roomSocketOpen /\ roomIn = <<>>)
    /\ [](~playMounted => ~playSocketOpen /\ playIn = <<>>)
    /\ [][/\ ~roomMounted => UNCHANGED roomView
          /\ ~playMounted => UNCHANGED playState]_vars

\* a response has arrived after its view unmounted
C21_Witness ==
    \/ ~roomMounted /\ metaState = "dropped"
    \/ ~playMounted /\ loadState = "discarded"

(***************************************************************************)
(* Properties of the voting list.                                          *)
(***************************************************************************)
\* two revealed payloads that differ at most in the author's id, name or avatar
SameButAuthor(a, b) ==
    /\ Len(a) = Len(b)
    /\ \A k \in 1..Len(a) :
          /\ a[k].submission_id = b[k].submission_id
          /\ a[k].id = b[k].id
          /\ a[k].anon_id = b[k].anon_id
          /\ a[k].text = b[k].text

\* C22: in the voting phase two revealed payloads that differ only in
\* author-identifying fields are shown the same way, by PlayGame's voting view
\* and by displayAnswersForVoting.
C22_AuthorNotShown ==
    SameButAuthor(twinReveal[1], twinReveal[2]) =>
        /\ twinShown # <<>> => twinShown[1] = twinShown[2]
        /\ twinCards # <<>> => twinCards[1] = twinCards[2]

(***************************************************************************)
(* Properties of the play view's handlers.                                 *)
(***************************************************************************)
\* C23: after a round_started event, in whatever phase it arrives, the phase
\* is collecting, the round id and question are the payload's, and the
\* submission list, the vote tally and the answer input are empty.
C23_RoundStartedResets ==
    [][Delivered("round_started") =>
          /\ phase' = "collecting"
          /\ roundId' = Head(playIn).round_id
          /\ question' = Head(playIn).question
          /\ submissions' = <<>>
          /\ voteCounts' = EmptyMap
          /\ answerText' = <<>>]_vars

\* a second round has started, after a round that had submissions and votes
C23_Witness ==
    /\ roundIndex = 2
    /\ phase = "collecting"
    /\ roundId = 8
    /\ submissions = <<>>
    /\ voteCounts = EmptyMap
    /\ answerText = <<>>

\* C24: after a vote_update event the tally is the payload's counts map
\* exactly (the empty map when the payload has no counts), whether or not
\* its ids are in the local submission list, and the phase and the
\* submission list are unchanged.
C24_TallyIsPayload ==
    [][Delivered("vote_update") =>
          /\ voteCounts' = (IF "counts" \in DOMAIN Head(playIn).data
                            THEN Head(playIn).data.counts
                            ELSE EmptyMap)
          /\ UNCHANGED <<phase, submissions>>]_vars

\* the tally holds a count for submission 103, which is not in the list
C24_Witness ==
    /\ phase = "voting"
    /\ Len(submissions) = 2
    /\ 103 \in DOMAIN voteCounts
    /\ \A k \in 1..Len(submissions) : submissions[k].submission_id # 103

\* C25: submitting an answer with a known round id and a non-blank text emits
\* exactly one submit_answer with that round id and the trimmed text and
\* empties the input; the phase stays collecting, and once the answer is
\* sent the phase leaves collecting only when submissions_revealed arrives.
C25_SubmitKeepsCollecting ==
    [][/\ Emitted({"submit_answer"}) =>
             /\ Len(playOut') = Len(playOut) + 1
             /\ playOut'[Len(playOut')].round_id = roundId
             /\ playOut'[Len(playOut')].text = Trim(answerText)
             /\ roundId # Null
             /\ Trim(answerText) # <<>>
             /\ answerText' = <<>>
             /\ phase' = "collecting"
       /\ (/\ phase = "collecting"
           /\ playOut # <<>>
           /\ Head(playOut).type = "submit_answer"
           /\ phase' # "collecting") => Delivered("submissions_revealed")]_vars

(***************************************************************************)
(* Properties of the game room's handlers and actions.                     *)
(***************************************************************************)
\* the positions of a roster that hold the given player id
Holding(list, id) == {k \in 1..Len(list) : list[k].id = id}

\* C26: after a joined event carrying a player id the local player id is that
\* id, the id is persisted, and the roster has exactly one entry with that id
\* and no other entry with the same name; a joined event without a player id
\* changes no state.
C26_JoinedRecordsIdentity ==
    [][RoomDelivered("joined") =>
          LET data == Head(roomIn)
          IN  IF data.player_id # Null
              THEN /\ playerId' = data.player_id
                   /\ storedId' = data.player_id
                   /\ Cardinality(Holding(players', data.player_id)) = 1
                   /\ \A k \in 1..Len(players') :
                         players'[k].name = data.name =>
                             players'[k].id = data.player_id
              ELSE UNCHANGED <<roomState, roomOut>>]_vars

\* the local player has joined under a name another roster entry had
C26_Witness ==
    /\ playerId = 2
    /\ storedId = 2
    /\ metaState = "done"
    /\ players = <<Player(2, NameOf(1), FALSE)>>

\* C27: on a player_list event every roster entry whose id is in the payload
\* takes the payload's name and ready flag and keeps its position, and the
\* payload's players whose id was not in the roster are appended after the
\* existing entries in payload order.
C27_RosterMerge ==
    [][RoomDelivered("player_list") =>
          LET list == Head(roomIn).players
              IsNew(dp) == ~HasId(players, dp.id)
          IN  /\ Len(players') >= Len(players)
              /\ \A k \in 1..Len(players) :
                    /\ players'[k].id = players[k].id
                    /\ HasId(list, players[k].id) =>
                          /\ players'[k].name = FindId(list, players[k].id).name
                          /\ players'[k].ready = FindId(list, players[k].id).ready
              /\ SubSeq(players', Len(players) + 1, Len(players'))
                    = SelectSeq(list, IsNew)]_vars

\* player 1 was appended behind player 2, against the payload's order
C27_Witness ==
    /\ Len(players) = 2
    /\ players[1].id = 2
    /\ players[2].id = 1
    /\ players[1].ready
    /\ players[2].ready

C29_KickOnlyRequests ==
    [][RoomEmitted({"remove_player"}) =>
          /\ isHostOfRoom
          /\ Len(roomOut') = Len(roomOut) + 1
          /\ HasId(players, roomOut'[Len(roomOut')].player_id)
          /\ UNCHANGED roomState]_vars

\* the host has asked to remove player 2, who is still in the roster
C29_Witness ==
    /\ isHostOfRoom
    /\ roomOut = <<[type |-> "remove_player", player_id |-> 2]>>
    /\ HasId(players, 2)

(***************************************************************************)
(* The minimum answer length of the reference submit code.                 *)
(***************************************************************************)
\* the shortest answer the reference submitAnswer lets through
MinAnswerLength == 5

\* C30: an answer whose trimmed text is shorter than the minimum length never
\* reaches the network: every submit_answer the play view emits carries a
\* text of at least MinAnswerLength characters.
C30_ShortAnswerStaysLocal ==
    [][Emitted({"submit_answer"}) =>
          Len(playOut'[Len(playOut')].text) >= MinAnswerLength]_vars

(***************************************************************************)
(* Properties of the roster as a whole.                                    *)
(***************************************************************************)
\* C31: the roster never contains two entries with the same player id (the
\* server's payloads list every player id at most once).
C31_RosterIdsUnique ==
    \A j \in 1..Len(players) : \A k \in 1..Len(players) :
        players[j].id = players[k].id => j = k

\* a roster of two players, the second appended by a player_list after the
\* local player joined and the metadata was loaded
C31_Witness ==
    /\ metaState = "done"
    /\ playerId = 2
    /\ Len(players) = 2
    /\ players[1].id = 2
    /\ players[2].id = 1

\* C32: a metadata response that arrives after a joined or player_list event
\* has built a roster does not replace that roster: the step that takes the
\* response leaves a roster built from socket events as it is.
C32_MetadataKeepsRoster ==
    [][(/\ metaState = "pending"
        /\ metaState' = "done"
        /\ players # <<>>) => players' = players]_vars

(***************************************************************************)
(* Properties of the messages the play view emits.                         *)
(***************************************************************************)
\* the message this step appends to the play view's outbox
Sent == playOut'[Len(playOut')]

\* C33: every submit_answer, reveal_submissions and vote_submission the play
\* view emits carries the round id of the most recent round_started event,
\* and none carries a null round id.
C33_EmittedRoundIdIsKnown ==
    [][Emitted({"submit_answer", "reveal_submissions", "vote_submission"}) =>
          /\ Sent.round_id = roundId
          /\ Sent.round_id # Null]_vars

\* C34: start_round is emitted only by the host while the phase is waiting
\* or finished, submit_answer only while collecting, reveal_submissions only
\* by the host while collecting, and vote_submission only while voting and
\* only for a submission id of the current submission list.
C34_ActionsFollowPhaseAndRole ==
    [][/\ Emitted({"start_round"}) => isHost /\ phase \in {"waiting", "finished"}
       /\ Emitted({"submit_answer"}) => phase = "collecting"
       /\ Emitted({"reveal_submissions"}) => isHost /\ phase = "collecting"
       /\ Emitted({"vote_submission"}) =>
             /\ phase = "voting"
             /\ \E i \in 1..Len(submissions) :
                   submissions[i].submission_id = Sent.submission_id]_vars

\* a player who is not the host has voted for the second listed submission
C34_Witness ==
    /\ ~isHost
    /\ phase = "voting"
    /\ Len(submissions) = 2
    /\ playOut # <<>>
    /\ Head(playOut).type = "vote_submission"
    /\ Head(playOut).submission_id = submissions[2].submission_id

(***************************************************************************)
(* Properties of the local player's ready flag and of the room's guards.   *)
(***************************************************************************)
\* C35: whenever the roster contains an entry for the local player id, that
\* entry's ready flag equals the local ready flag.
C35_OwnRowMatchesReadyFlag ==
    playerId # Null =>
        \A k \in Holding(players, playerId) : players[k].ready = isReady

\* C36: toggle_ready is never emitted while no local player id is assigned;
\* start_game and remove_player are emitted only by a client whose player id
\* is the game's host player id; the client navigates to the play view only
\* on game_started and only with a player id assigned, and a game_started
\* that finds no player id changes nothing.
C36_RoomGuards ==
    [][/\ RoomEmitted({"toggle_ready"}) => playerId # Null
       /\ RoomEmitted({"start_game", "remove_player"}) =>
             playerId # Null /\ playerId = host_player_id
       /\ (~navigated /\ navigated') =>
             RoomDelivered("game_started") /\ playerId # Null
       /\ (RoomDelivered("game_started") /\ playerId = Null) =>
             UNCHANGED <<roomState, roomOut>>]_vars

\* a player who is not the host has been sent to the play view
C36_Witness ==
    /\ navigated
    /\ playerId = 2
    /\ host_player_id = HostId
    /\ ~isHostOfRoom

(***************************************************************************)
(* Properties of tryFetch.                                                 *)
(***************************************************************************)
\* the candidate tried in the k-th place: hosts in list order, for each host
\* the /api path first
KthCandidate(k) ==
    Url(API_HOSTS[(k + 1) \div 2], IF k % 2 = 1 THEN "/api" ELSE "", fetchPath)

\* C38: tryFetch requests its candidates in the fixed order; it returns the
\* URL and the parsed body of the first candidate answered with an ok status
\* and requests nothing after it; a status that is not ok counts as a failure
\* like a rejected request; it throws only after every candidate has failed;
\* it issues at most 2 x (number of hosts) requests and always ends.
C38_TryFetchFirstOk ==
    /\ [](/\ Len(fetchLog) <= 2 * Len(API_HOSTS)
          /\ \A k \in 1..Len(fetchLog) : fetchLog[k].url = KthCandidate(k)
          /\ \A k \in 1..(Len(fetchLog) - 1) : ~ResOk(fetchLog[k].outcome)
          /\ fetchState = "running" =>
                \A k \in 1..Len(fetchLog) : ~ResOk(fetchLog[k].outcome)
          /\ fetchState = "returned" =>
                /\ fetchLog # <<>>
                /\ ResOk(fetchLog[Len(fetchLog)].outcome)
                /\ fetchReturn.url = fetchLog[Len(fetchLog)].url
                /\ fetchReturn.data = ParseBody(fetchLog[Len(fetchLog)].outcome.text)
          /\ fetchState = "threw" =>
                /\ Len(fetchLog) = 2 * Len(API_HOSTS)
                /\ \A k \in 1..Len(fetchLog) : ~ResOk(fetchLog[k].outcome))
    /\ [][fetchState # "running" => UNCHANGED fetchVars]_vars
    /\ <>(fetchState # "running")

\* the last candidate answered ok after a rejected request, a 404 and a 500
C38_Witness ==
    /\ fetchState = "returned"
    /\ Len(fetchLog) = 4
    /\ fetchLog[1].outcome.kind = "rejected"
    /\ fetchLog[2].outcome.kind = "response" /\ fetchLog[2].outcome.status = 404
    /\ fetchLog[3].outcome.kind = "response" /\ fetchLog[3].outcome.status = 500
    /\ fetchReturn = [url |-> Url("http://localhost", "", fetchPath),
                      data |-> [kind |-> "number", value |-> 5]]

(***************************************************************************)
(* Properties of the game room's socket effect.                            *)
(***************************************************************************)
\* C37: with a server that answers each join_game with the id and name sent,
\* the cycle of connecting, joining and re-running the socket effect ends:
\* the newest socket is at all times the only open one (each re-run closes
\* the previous socket before it opens the next), the number of sockets
\* stays below the model's cap, and from some point on the effect has seen
\* the current dependencies, so no further re-run is due.
C37_RejoinStabilises ==
    /\ [](openSockets = {socketCount})
    /\ [](socketCount < MaxSockets)
    /\ <>[](effectDeps = RoomDeps)

\* a new player who turned out to be the host: the name, the assigned id and
\* the host flag each caused a re-run, and the fourth socket has joined
C37_Witness ==
    /\ socketCount = 4
    /\ openSockets = {4}
    /\ linkState = "joined"
    /\ effectDeps = RoomDeps
    /\ isHostOfRoom
    /\ roomIn = <<>>

====
